---------------------------- MODULE Spec2Model ----------------------------
(***************************************************************************)
(* The peripheral link layer of CAPstoneNUS/InternalComms: the gun sketch  *)
(* (src/arduino/new_gun.ino, first sketch), the vest sketch                *)
(* (src/arduino/new_vest.ino, first sketch), the gun variant               *)
(* src/arduino/new_gun2.ino and the hand sketch src/unnamed/part_001.      *)
(*                                                                         *)
(* One sketch runs in a behaviour; `role' says which.  The sketches share  *)
(* their global names (hasHandshake, sqn, expectedSeqNum, ...), so the     *)
(* model has one variable per global name.  A sketch's loop() is cut at    *)
(* its stages, in program order: pc says which stage runs next             *)
(*   "serial"  - the Serial.available()/readBytes/CRC/dispatch block,      *)
(*   "button"  - readButton (guns) or the IR receiver poll (vest),         *)
(*   "imu"     - the IMU cadence block (guns, hand),                       *)
(*   "timeout" - the gunshot retransmission block (guns).                  *)
(* The stages after "serial" run only while hasHandshake holds, as in the  *)
(* code.                                                                   *)
(*                                                                         *)
(* Time: the code compares millis() - t with a constant for three stored   *)
(* time stamps t.  The model keeps each difference (sinceLastGunShot,      *)
(* sincePreviousIMU, sinceLastDebounce), saturated just above the constant *)
(* it is compared with; time advances between two loop iterations.         *)
(***************************************************************************)
EXTENDS Integers, Sequences, FiniteSets, TLC

\* ------------------------------------------------------------------------
\* Packet type codes (ASCII) and program constants
\* ------------------------------------------------------------------------
SYN_PACKET == 83
KILL_PACKET == 75
ACK_PACKET == 65
NAK_PACKET == 78
IMU_PACKET == 77
GUNSHOT_PACKET == 71
RELOAD_PACKET == 82
UPDATE_STATE_PACKET == 85
GUNSTATE_ACK_PKT == 88
VESTSHOT_PACKET == 86
VESTSTATE_ACK_PKT == 87

MAG_SIZE == 6
MAX_RESEND_COUNT == 3
PACKET_BUFFER_SIZE == 4
IMU_INTERVAL == 50
RESPONSE_TIMEOUT == 1000
debounceDelay == 50
NUMPIXELS == 6
VEST_NUMPIXELS == 10
MAX_HEALTH == 100
MAX_SHIELD == 30
IR_DAMAGE == 5
IR_HIT_COMMAND == 22
SETUP_DELAY == 100

LOW == 0
HIGH == 1

\* uint8_t arithmetic
U8(n) == n % 256

\* ------------------------------------------------------------------------
\* CRC-8 (CRC8.h: polynomial 0x07, initial value 0x00, no reflection, no
\* final XOR), computed bit by bit as the library's add() does.
\* ------------------------------------------------------------------------
CRC8_POLYNOME == 7

Bit(a, i) == (a \div (2 ^ i)) % 2

Xor8(a, b) ==
  LET x(i) == ((Bit(a, i) + Bit(b, i)) % 2) * (2 ^ i)
  IN x(0) + x(1) + x(2) + x(3) + x(4) + x(5) + x(6) + x(7)

\* One round of the shift register: shift left, XOR the polynomial in when
\* the bit shifted out is set
CrcShift(c) ==
  IF c >= 128 THEN Xor8((c * 2) % 256, CRC8_POLYNOME) ELSE (c * 2) % 256

\* One byte: XOR it into the register, then eight rounds
CrcUpdate[crc \in 0..255] ==
  [byte \in 0..255 |->
     CrcShift(CrcShift(CrcShift(CrcShift(
       CrcShift(CrcShift(CrcShift(CrcShift(Xor8(crc, byte)))))))))]

\* The register after the first n bytes, starting from the initial value 0
RECURSIVE CrcAdd(_, _)
CrcAdd(bytes, n) ==
  IF n = 0 THEN 0 ELSE CrcUpdate[CrcAdd(bytes, n - 1)][bytes[n]]

CRC8(bytes) == CrcAdd(bytes, Len(bytes))

ZeroPad(n) == [i \in 1..n |-> 0]

\* ------------------------------------------------------------------------
\* State
\* ------------------------------------------------------------------------
VARIABLES
  role,               \* which sketch runs: "gun", "vest", "gun2" or "hand"
  pc,                 \* the stage of loop() that runs next
  serial,             \* complete frames waiting in the UART receive buffer
  rx,                 \* frames read from Serial by the last step
  out,                \* frames written to Serial by the last step
  ir,                 \* TRUE iff the last step called IrSender.sendNEC
  hasHandshake,
  sqn,
  expectedSeqNum,
  currBufferIdx,
  packets,
  pendingState,
  remainingBullets,
  currShot,
  shield,
  health,
  waitingForGunACK,
  packetResendCount,
  sinceLastGunShot,   \* millis() - lastGunShotTime, saturated
  sincePreviousIMU,   \* millis() - previousIMUMillis, saturated
  sinceLastDebounce,  \* millis() - lastDebounceTime, saturated
  buttonState,
  lastButtonState,
  pixels,             \* the strip: pixel i lit (guns) or its brightness (vest)
  hist,               \* history of the session, read by the properties only
  env,                \* what the host and the player have done so far
  hits,               \* applications of applyDamageToPendingState so far
  refState            \* the reference damage rule applied `hits' times

linkVars == <<hasHandshake, sqn, expectedSeqNum, currBufferIdx, packets, pendingState>>
roleVars == <<remainingBullets, currShot, shield, health>>
shotVars == <<waitingForGunACK, packetResendCount>>
timeVars == <<sinceLastGunShot, sincePreviousIMU, sinceLastDebounce>>
buttonVars == <<buttonState, lastButtonState>>
ghostVars == <<hist, env, hits, refState>>
vars == <<role, pc, serial, rx, out, ir, linkVars, roleVars, shotVars, timeVars,
          buttonVars, pixels, ghostVars>>

NoSeq == 0 - 1

Guns == {"gun", "gun2"}

\* Saturating elapsed time
Elapse(t, d, cap) == IF t + d > cap THEN cap ELSE t + d

\* ------------------------------------------------------------------------
\* Power-up state (the globals' initialisers, then setup()), per sketch
\* ------------------------------------------------------------------------
GunZeroPacket ==
  [packetType |-> 0, sqn |-> 0, remainingBullets |-> 0,
   padding |-> ZeroPad(16), crc |-> 0]

VestZeroPacket ==
  [packetType |-> 0, sqn |-> 0, shield |-> 0, health |-> 0,
   padding |-> ZeroPad(15), crc |-> 0]

Gun2ZeroPacket ==
  [packetType |-> 0, sqn |-> 0, shotID |-> 0, remainingBullets |-> 0,
   padding |-> ZeroPad(15), crc |-> 0]

initializePendingState(r) ==
  CASE r = "gun" -> [remainingBullets |-> MAG_SIZE, isPending |-> FALSE]
    [] r = "gun2" -> [currShot |-> 1, remainingBullets |-> MAG_SIZE, isPending |-> FALSE]
    [] OTHER -> [shield |-> 0, health |-> MAX_HEALTH, isPending |-> FALSE]

\* The vest's strip: one pixel per 10 HP, a dim one for the remainder
VestPixels(hp) ==
  [i \in 0..(VEST_NUMPIXELS - 1) |->
     IF i < hp \div 10 THEN 10
     ELSE IF i = hp \div 10 /\ hp % 10 > 0 THEN 1 ELSE 0]

HistBoot ==
  [shots |-> <<>>,           \* seq stamped on each shot of this session, in order
   pressBullets |-> NoSeq,   \* canonical bullets before the unacknowledged press
   applied |-> <<>>,         \* seq of each host frame applied in this session, in order
   synPayload |-> <<>>,      \* <<state>> carried by the SYN that awaits its ACK
   resync |-> FALSE,         \* the session's SYN arrived while hasHandshake was true
   lastU |-> <<>>,           \* <<the UPDATE_STATE frame accepted last>>
   lastUAck |-> <<>>,        \* what was transmitted when it was accepted
   quiet |-> FALSE]          \* nothing but replays of it was handled since

EnvBoot == [frames |-> 0, shots |-> 0]

Boot(r) ==
  [role |-> r,
   pc |-> "serial",
   serial |-> <<>>,
   rx |-> <<>>,
   out |-> <<>>,
   ir |-> FALSE,
   hasHandshake |-> FALSE,
   sqn |-> 0,
   expectedSeqNum |-> 0,
   currBufferIdx |-> 0,
   packets |-> [i \in 0..(PACKET_BUFFER_SIZE - 1) |->
                  CASE r = "gun" -> GunZeroPacket
                    [] r = "gun2" -> Gun2ZeroPacket
                    [] OTHER -> VestZeroPacket],
   pendingState |-> initializePendingState(r),
   remainingBullets |-> IF r \in Guns THEN MAG_SIZE ELSE 0,
   currShot |-> IF r = "gun2" THEN 1 ELSE 0,
   shield |-> 0,
   health |-> IF r \in Guns THEN 0 ELSE MAX_HEALTH,
   waitingForGunACK |-> FALSE,
   packetResendCount |-> 0,
   sinceLastGunShot |-> IF r \in Guns THEN SETUP_DELAY ELSE 0,
   sincePreviousIMU |-> IF r \in Guns THEN IMU_INTERVAL ELSE 0,
   sinceLastDebounce |-> IF r \in Guns THEN debounceDelay + 1 ELSE 0,
   buttonState |-> LOW,
   lastButtonState |-> HIGH,
   pixels |-> IF r \in Guns THEN [i \in 0..(NUMPIXELS - 1) |-> TRUE]
              ELSE VestPixels(MAX_HEALTH),
   hist |-> HistBoot,
   env |-> EnvBoot,
   hits |-> 0,
   refState |-> <<>>]

\* The current state as one record, so that a function of the sketch is a
\* map from the state before it runs to the state after it.
St ==
  [role |-> role, pc |-> pc, serial |-> serial, rx |-> rx, out |-> out, ir |-> ir,
   hasHandshake |-> hasHandshake, sqn |-> sqn, expectedSeqNum |-> expectedSeqNum,
   currBufferIdx |-> currBufferIdx, packets |-> packets,
   pendingState |-> pendingState, remainingBullets |-> remainingBullets,
   currShot |-> currShot, shield |-> shield, health |-> health,
   waitingForGunACK |-> waitingForGunACK, packetResendCount |-> packetResendCount,
   sinceLastGunShot |-> sinceLastGunShot, sincePreviousIMU |-> sincePreviousIMU,
   sinceLastDebounce |-> sinceLastDebounce, buttonState |-> buttonState,
   lastButtonState |-> lastButtonState, pixels |-> pixels, hist |-> hist,
   env |-> env, hits |-> hits, refState |-> refState]

\* The state s is the initial state
Starts(s) ==
  /\ role = s.role
  /\ pc = s.pc
  /\ serial = s.serial
  /\ rx = s.rx
  /\ out = s.out
  /\ ir = s.ir
  /\ hasHandshake = s.hasHandshake
  /\ sqn = s.sqn
  /\ expectedSeqNum = s.expectedSeqNum
  /\ currBufferIdx = s.currBufferIdx
  /\ packets = s.packets
  /\ pendingState = s.pendingState
  /\ remainingBullets = s.remainingBullets
  /\ currShot = s.currShot
  /\ shield = s.shield
  /\ health = s.health
  /\ waitingForGunACK = s.waitingForGunACK
  /\ packetResendCount = s.packetResendCount
  /\ sinceLastGunShot = s.sinceLastGunShot
  /\ sincePreviousIMU = s.sincePreviousIMU
  /\ sinceLastDebounce = s.sinceLastDebounce
  /\ buttonState = s.buttonState
  /\ lastButtonState = s.lastButtonState
  /\ pixels = s.pixels
  /\ hist = s.hist
  /\ env = s.env
  /\ hits = s.hits
  /\ refState = s.refState

\* The step ends in state n
Commit(n) ==
  /\ role' = n.role
  /\ pc' = n.pc
  /\ serial' = n.serial
  /\ rx' = n.rx
  /\ out' = n.out
  /\ ir' = n.ir
  /\ hasHandshake' = n.hasHandshake
  /\ sqn' = n.sqn
  /\ expectedSeqNum' = n.expectedSeqNum
  /\ currBufferIdx' = n.currBufferIdx
  /\ packets' = n.packets
  /\ pendingState' = n.pendingState
  /\ remainingBullets' = n.remainingBullets
  /\ currShot' = n.currShot
  /\ shield' = n.shield
  /\ health' = n.health
  /\ waitingForGunACK' = n.waitingForGunACK
  /\ packetResendCount' = n.packetResendCount
  /\ sinceLastGunShot' = n.sinceLastGunShot
  /\ sincePreviousIMU' = n.sincePreviousIMU
  /\ sinceLastDebounce' = n.sinceLastDebounce
  /\ buttonState' = n.buttonState
  /\ lastButtonState' = n.lastButtonState
  /\ pixels' = n.pixels
  /\ hist' = n.hist
  /\ env' = n.env
  /\ hits' = n.hits
  /\ refState' = n.refState

\* setup(): the state in which the first loop() iteration starts
setup(r) == Boot(r)

\* asm volatile("jmp 0"): the program restarts; the C runtime initialises the
\* globals again and setup() runs again.  What the host and the player have
\* done is not undone.
jmp0(s) == [setup(s.role) EXCEPT !.env = s.env]

\* A step starts: nothing has been read, written or emitted by it yet
Begin(s) == [s EXCEPT !.rx = <<>>, !.out = <<>>, !.ir = FALSE]

\* ------------------------------------------------------------------------
\* Inputs
\* ------------------------------------------------------------------------
\* Values an uninitialised struct field may hold (sendNAKPacket never writes
\* the state bytes of its local Packet)
GarbageBytes == {0, 165}

\* Sensor samples after calibration and scaling, as int16 values
ImuSamples == {<<0, 0, 0, 0, 0, 0>>, <<950, 0 - 27, 39, 6, 0, 0 - 1>>}

\* What IrReceiver.decode() finds: nothing, or a frame with this command
IrDecoded == {<<>>, <<IR_HIT_COMMAND>>, <<69>>}

\* The host sends at most MaxHostFrames frames, the player presses the
\* trigger (or the vest is hit) at most MaxShots times, and host frames
\* carry seq numbers 0..MaxSeq
MaxHostFrames == 3
MaxShots == 2
MaxSeq == 1

\* Bullet counts and (shield, health) pairs the host puts in its frames
HostBullets == {2, 5}
HostVitals == {<<30, 100>>, <<10, 4>>}

\* ------------------------------------------------------------------------
\* History kept for the properties
\* ------------------------------------------------------------------------
\* A session starts: SYN is handled
HistNewSession(s, payload) ==
  [s EXCEPT !.hist = [HistBoot EXCEPT
                        !.synPayload = <<payload>>,
                        !.resync = s.hasHandshake
                                     \/ (s.hist.resync /\ s.hist.synPayload # <<>>)]]

\* The host frame with this seq was applied
HistApplied(s, seqNum) ==
  [s EXCEPT !.hist.applied = Append(s.hist.applied, seqNum)]

\* A shot was stamped with the current sqn
HistShot(s, n) ==
  [n EXCEPT !.hist.shots = Append(s.hist.shots, s.sqn),
            !.hist.quiet = FALSE]

\* ------------------------------------------------------------------------
\* Gun: src/arduino/new_gun.ino, first sketch
\* ------------------------------------------------------------------------
\* The 19 bytes the CRC covers: sizeof(Packet) - sizeof(packet.crc)
GunCrcBytes(p) == <<p.packetType, p.sqn, p.remainingBullets>> \o p.padding

\* A CRC over the three header bytes only
GunHeaderCRC(p) == CRC8(<<p.packetType, p.sqn, p.remainingBullets>>)

GunCalculatedCRC(p) == CRC8(GunCrcBytes(p))

GunPacket(packetType, seqNum, bullets) ==
  LET p == [packetType |-> packetType, sqn |-> seqNum, remainingBullets |-> bullets,
            padding |-> ZeroPad(16), crc |-> 0]
  IN [p EXCEPT !.crc = GunCalculatedCRC(p)]

\* updatePendingState that forgets to raise isPending
GunUpdatePendingUnflagged(s, bullets) ==
  [s EXCEPT !.pendingState.remainingBullets = bullets]

GunUpdatePendingState(s, bullets) ==
  [s EXCEPT !.pendingState = [remainingBullets |-> bullets, isPending |-> TRUE]]

\* applyPendingState that leaves isPending raised
GunApplyPendingKeepsFlag(s) ==
  IF s.pendingState.isPending
  THEN [s EXCEPT !.remainingBullets = s.pendingState.remainingBullets]
  ELSE s

GunApplyPendingState(s) ==
  IF s.pendingState.isPending
  THEN [s EXCEPT !.remainingBullets = s.pendingState.remainingBullets,
                 !.pendingState.isPending = FALSE]
  ELSE s

GunStorePacket(s, packet) ==
  [s EXCEPT !.packets[s.currBufferIdx] = packet,
            !.currBufferIdx = (s.currBufferIdx + 1) % PACKET_BUFFER_SIZE]

GunRetreivePacket(s, seqNum) == s.packets[seqNum % PACKET_BUFFER_SIZE]

\* sendPacket that stores every frame, the handshake ACK too
GunSendPacketStoresAll(s, packetType) ==
  LET packet == GunPacket(packetType, s.sqn,
                          IF s.pendingState.isPending
                          THEN s.pendingState.remainingBullets
                          ELSE s.remainingBullets)
  IN GunStorePacket([s EXCEPT !.out = Append(s.out, packet)], packet)

\* sendPacket that advances sqn after every frame it stores
GunSendPacketCounting(s, packetType) ==
  LET packet == GunPacket(packetType, s.sqn,
                          IF s.pendingState.isPending
                          THEN s.pendingState.remainingBullets
                          ELSE s.remainingBullets)
      sent == [s EXCEPT !.out = Append(s.out, packet)]
  IN IF packetType # ACK_PACKET
     THEN [GunStorePacket(sent, packet) EXCEPT !.sqn = U8(s.sqn + 1)]
     ELSE sent

GunSendPacket(s, packetType) ==
  LET packet == GunPacket(packetType, s.sqn,
                          IF s.pendingState.isPending
                          THEN s.pendingState.remainingBullets
                          ELSE s.remainingBullets)
      sent == [s EXCEPT !.out = Append(s.out, packet)]
  IN IF packetType # ACK_PACKET THEN GunStorePacket(sent, packet) ELSE sent

\* sendNAKPacket that stamps the NAK with the transmit counter
GunSendNAKPacketOwnSqn(s, seqNum, garbage) ==
  [s EXCEPT !.out = Append(s.out, GunPacket(NAK_PACKET, s.sqn, garbage))]

GunSendNAKPacket(s, seqNum, garbage) ==
  [s EXCEPT !.out = Append(s.out, GunPacket(NAK_PACKET, seqNum, garbage))]

GunAdjustLED(s, bullets) ==
  [s EXCEPT !.remainingBullets = bullets,
            !.pixels = [i \in 0..(NUMPIXELS - 1) |-> i < bullets]]

\* int16 as two little-endian bytes
Int16Bytes(v) == <<(v % 65536) % 256, (v % 65536) \div 256>>

IMUCrcBytes(p) ==
  <<p.packetType>> \o Int16Bytes(p.accX) \o Int16Bytes(p.accY) \o Int16Bytes(p.accZ)
    \o Int16Bytes(p.gyrX) \o Int16Bytes(p.gyrY) \o Int16Bytes(p.gyrZ) \o p.padding

IMUPacket(sample) ==
  LET p == [packetType |-> IMU_PACKET, accX |-> sample[1], accY |-> sample[2],
            accZ |-> sample[3], gyrX |-> sample[4], gyrY |-> sample[5],
            gyrZ |-> sample[6], padding |-> ZeroPad(6), crc |-> 0]
  IN [p EXCEPT !.crc = CRC8(IMUCrcBytes(p))]

sendIMUData(s, sample) == [s EXCEPT !.out = Append(s.out, IMUPacket(sample))]

\* A gap test that lets the frame after the expected one through
GunIsGapOffByOne(s, packet) == packet.sqn > s.expectedSeqNum + 1

\* handlePacket, RELOAD/UPDATE_STATE: the frame is behind / ahead of expectedSeqNum
GunIsDuplicate(s, packet) == packet.sqn < s.expectedSeqNum

GunIsGap(s, packet) == packet.sqn > s.expectedSeqNum

GunHandlePacket(s, packet, garbage) ==
  CASE packet.packetType = GUNSHOT_PACKET ->
         IF packet.sqn = s.sqn
         THEN LET a == GunApplyPendingState([s EXCEPT !.waitingForGunACK = FALSE,
                                                      !.packetResendCount = 0])
              IN [a EXCEPT !.sinceLastGunShot = 0,
                           !.sqn = U8(s.sqn + 1),
                           !.hist.pressBullets = NoSeq,
                           !.hist.quiet = FALSE]
         ELSE [GunSendNAKPacket(s, s.sqn, garbage) EXCEPT !.hist.quiet = FALSE]
    [] packet.packetType = RELOAD_PACKET ->
         IF GunIsDuplicate(s, packet)
         THEN [GunSendPacket(s, RELOAD_PACKET) EXCEPT !.hist.quiet = FALSE]
         ELSE IF GunIsGap(s, packet)
         THEN [GunSendNAKPacket(s, s.expectedSeqNum, garbage) EXCEPT !.hist.quiet = FALSE]
         ELSE LET a == GunSendPacket(GunAdjustLED(s, MAG_SIZE), RELOAD_PACKET)
              IN [HistApplied(a, packet.sqn) EXCEPT
                    !.expectedSeqNum = U8(s.expectedSeqNum + 1),
                    !.hist.pressBullets = NoSeq,
                    !.hist.quiet = FALSE]
    [] packet.packetType = UPDATE_STATE_PACKET ->
         IF GunIsDuplicate(s, packet)
         THEN [GunSendPacket(s, GUNSTATE_ACK_PKT) EXCEPT
                 !.hist.quiet = s.hist.quiet /\ s.hist.lastU = <<packet>>]
         ELSE IF GunIsGap(s, packet)
         THEN [GunSendNAKPacket(s, s.expectedSeqNum, garbage) EXCEPT !.hist.quiet = FALSE]
         ELSE LET a == GunSendPacket(
                         GunAdjustLED([s EXCEPT !.remainingBullets = packet.remainingBullets],
                                      packet.remainingBullets),
                         GUNSTATE_ACK_PKT)
              IN [HistApplied(a, packet.sqn) EXCEPT
                    !.expectedSeqNum = U8(s.expectedSeqNum + 1),
                    !.hist.pressBullets = NoSeq,
                    !.hist.lastU = <<packet>>,
                    !.hist.lastUAck = a.out,
                    !.hist.quiet = TRUE]
    [] packet.packetType = NAK_PACKET ->
         [s EXCEPT !.out = Append(s.out, GunRetreivePacket(s, packet.sqn)),
                   !.hist.quiet = FALSE]
    [] packet.packetType = KILL_PACKET -> jmp0(s)
    [] OTHER -> [GunSendNAKPacket(s, s.expectedSeqNum, garbage) EXCEPT !.hist.quiet = FALSE]

\* loop(), the Serial block: one frame is read when 20 bytes are available
GunLoopSerial(s, garbage) ==
  IF s.serial = <<>> THEN s
  ELSE
    LET packet == Head(s.serial)
        r == [s EXCEPT !.serial = Tail(s.serial)]
    IN IF GunCalculatedCRC(packet) = packet.crc
       THEN CASE packet.packetType = SYN_PACKET ->
                   GunSendPacket(
                     GunUpdatePendingState(
                       [HistNewSession(r, packet.remainingBullets) EXCEPT
                          !.sqn = 0, !.expectedSeqNum = 0, !.hasHandshake = FALSE],
                       packet.remainingBullets),
                     ACK_PACKET)
              [] packet.packetType = ACK_PACKET ->
                   LET a == GunApplyPendingState(r)
                   IN [GunAdjustLED(a, a.remainingBullets) EXCEPT
                         !.hasHandshake = TRUE,
                         !.hist.synPayload = <<>>,
                         !.hist.pressBullets = NoSeq,
                         !.hist.quiet = FALSE]
              [] OTHER ->
                   IF s.hasHandshake THEN GunHandlePacket(r, packet, garbage) ELSE r
       ELSE r

\* readButton: a debounced rising edge fires a shot
GunPress(s) ==
  LET fired == [s EXCEPT !.ir = TRUE,
                         !.remainingBullets = IF s.remainingBullets > 0
                                              THEN s.remainingBullets - 1 ELSE 0]
      sent == GunSendPacket(GunUpdatePendingState(fired, fired.remainingBullets),
                            GUNSHOT_PACKET)
  IN [HistShot(s, sent) EXCEPT
        !.waitingForGunACK = TRUE,
        !.sinceLastGunShot = 0,
        !.pixels = [i \in 0..(NUMPIXELS - 1) |->
                      IF i = sent.pendingState.remainingBullets THEN FALSE
                      ELSE sent.pixels[i]],
        !.hist.pressBullets = IF s.hist.pressBullets = NoSeq
                              THEN s.remainingBullets ELSE s.hist.pressBullets]

GunReadButton(s, reading) ==
  LET a == IF reading # s.lastButtonState THEN [s EXCEPT !.sinceLastDebounce = 0] ELSE s
      b == IF a.sinceLastDebounce > debounceDelay /\ reading # a.buttonState
           THEN LET c == [a EXCEPT !.buttonState = reading]
                IN IF reading = HIGH THEN GunPress(c) ELSE c
           ELSE a
  IN [b EXCEPT !.lastButtonState = reading]

\* loop(), the IMU block
GunLoopIMU(s, sample) ==
  IF s.sincePreviousIMU >= IMU_INTERVAL
  THEN sendIMUData([s EXCEPT !.sincePreviousIMU = 0], sample)
  ELSE s

\* The timeout block without its test of packetResendCount
GunLoopTimeoutUnbounded(s) ==
  IF s.waitingForGunACK /\ s.sinceLastGunShot > RESPONSE_TIMEOUT
  THEN [GunSendPacket(s, GUNSHOT_PACKET) EXCEPT
          !.packetResendCount = s.packetResendCount + 1,
          !.sinceLastGunShot = 0,
          !.hist.quiet = FALSE]
  ELSE s

\* loop(), the gunshot timeout block
GunLoopTimeout(s) ==
  IF (s.waitingForGunACK /\ s.sinceLastGunShot > RESPONSE_TIMEOUT)
     /\ s.packetResendCount < MAX_RESEND_COUNT
  THEN [GunSendPacket(s, GUNSHOT_PACKET) EXCEPT
          !.packetResendCount = s.packetResendCount + 1,
          !.sinceLastGunShot = 0,
          !.hist.quiet = FALSE]
  ELSE s

\* loop() without the if (hasHandshake) around its later blocks
AfterSerialAlways(s, n) == [n EXCEPT !.pc = "button", !.rx = s.serial]

\* The Serial block ran from s to n: the rest of loop() runs only if hasHandshake
AfterSerial(s, n) ==
  [n EXCEPT !.pc = IF n.hasHandshake THEN "button" ELSE "serial", !.rx = s.serial]

\* A shot was fired by the step that ends in n: the player has one shot less
AfterShot(n, fired) ==
  IF fired THEN [n EXCEPT !.env.shots = n.env.shots + 1] ELSE n

GunSerialStage ==
  /\ role = "gun" /\ pc = "serial"
  /\ \E garbage \in GarbageBytes :
       Commit(AfterSerial(St, GunLoopSerial(Begin(St), garbage)))

GunButtonStage ==
  /\ role = "gun" /\ pc = "button"
  /\ \E reading \in {LOW, HIGH} :
       LET n == GunReadButton(Begin(St), reading)
       IN /\ n.ir => env.shots < MaxShots
          /\ Commit([AfterShot(n, n.ir) EXCEPT !.pc = "imu"])

GunIMUStage ==
  /\ role = "gun" /\ pc = "imu"
  /\ \E sample \in ImuSamples :
       Commit([GunLoopIMU(Begin(St), sample) EXCEPT !.pc = "timeout"])

GunTimeoutStage ==
  /\ role = "gun" /\ pc = "timeout"
  /\ Commit([GunLoopTimeout(Begin(St)) EXCEPT !.pc = "serial"])

\* millis() advances by d between two iterations of loop()
Tick(d) ==
  /\ role \in Guns /\ pc = "serial"
  /\ Commit([Begin(St) EXCEPT
       !.sinceLastGunShot = Elapse(sinceLastGunShot, d, RESPONSE_TIMEOUT + 1),
       !.sincePreviousIMU = Elapse(sincePreviousIMU, d, IMU_INTERVAL),
       !.sinceLastDebounce = Elapse(sinceLastDebounce, d, debounceDelay + 1)])

\* ------------------------------------------------------------------------
\* The gun's host
\* ------------------------------------------------------------------------
GunValidFrames ==
  {GunPacket(SYN_PACKET, 0, b) : b \in HostBullets}
    \cup {GunPacket(ACK_PACKET, 0, 0), GunPacket(KILL_PACKET, 0, 0),
          GunPacket(IMU_PACKET, 0, 0)}
    \cup {GunPacket(t, n, 0) : t \in {GUNSHOT_PACKET, RELOAD_PACKET, NAK_PACKET},
                               n \in 0..MaxSeq}
    \cup {GunPacket(UPDATE_STATE_PACKET, n, b) : n \in 0..MaxSeq, b \in HostBullets}

\* Frames damaged on the line: a wrong CRC byte, or a changed byte under an
\* unchanged CRC byte
GunCorruptFrames ==
  {[GunPacket(SYN_PACKET, 0, 2) EXCEPT !.crc = U8(@ + 1)],
   [GunPacket(GUNSHOT_PACKET, 0, 0) EXCEPT !.sqn = 1],
   [GunPacket(UPDATE_STATE_PACKET, 0, 5) EXCEPT !.padding[7] = 16]}

GunHostFrames == GunValidFrames \cup GunCorruptFrames

\* ------------------------------------------------------------------------
\* Vest: src/arduino/new_vest.ino, first sketch
\* ------------------------------------------------------------------------
VestCrcBytes(p) == <<p.packetType, p.sqn, p.shield, p.health>> \o p.padding

VestCalculatedCRC(p) == CRC8(VestCrcBytes(p))

VestPacket(packetType, seqNum, sh, hp) ==
  LET p == [packetType |-> packetType, sqn |-> seqNum, shield |-> sh, health |-> hp,
            padding |-> ZeroPad(15), crc |-> 0]
  IN [p EXCEPT !.crc = VestCalculatedCRC(p)]

VestUpdateLED(s) == [s EXCEPT !.pixels = VestPixels(s.health)]

VestUpdatePendingState(s, sh, hp) ==
  [s EXCEPT !.pendingState = [shield |-> sh, health |-> hp, isPending |-> TRUE]]

VestApplyPendingState(s) ==
  IF s.pendingState.isPending
  THEN VestUpdateLED([s EXCEPT !.shield = s.pendingState.shield,
                               !.health = s.pendingState.health,
                               !.pendingState.isPending = FALSE])
  ELSE s

VestStorePacket(s, packet) ==
  [s EXCEPT !.packets[s.currBufferIdx] = packet,
            !.currBufferIdx = (s.currBufferIdx + 1) % PACKET_BUFFER_SIZE]

VestRetreivePacket(s, seqNum) == s.packets[seqNum % PACKET_BUFFER_SIZE]

VestSendPacket(s, packetType) ==
  LET packet == VestPacket(packetType, s.sqn,
                           IF s.pendingState.isPending
                           THEN s.pendingState.shield ELSE s.shield,
                           IF s.pendingState.isPending
                           THEN s.pendingState.health ELSE s.health)
      sent == [s EXCEPT !.out = Append(s.out, packet)]
  IN IF packetType # ACK_PACKET THEN VestStorePacket(sent, packet) ELSE sent

VestSendNAKPacket(s, seqNum, garbage) ==
  [s EXCEPT !.out = Append(s.out, VestPacket(NAK_PACKET, seqNum, garbage[1], garbage[2]))]

\* applyDamageToPendingState that does not raise isPending
VestApplyDamageUnflagged(s, damage) ==
  LET p == s.pendingState
      remainingDamage == U8(damage - p.shield)
  IN IF p.shield >= damage
     THEN [s EXCEPT !.pendingState.shield = U8(p.shield - damage)]
     ELSE IF p.health > remainingDamage
     THEN [s EXCEPT !.pendingState.shield = 0,
                    !.pendingState.health = U8(p.health - remainingDamage)]
     ELSE [s EXCEPT !.pendingState.shield = 0, !.pendingState.health = 100]

\* applyDamageToPendingState with >= where the code has > on health
VestApplyDamageSnapLate(s, damage) ==
  LET p == s.pendingState
      remainingDamage == U8(damage - p.shield)
  IN IF p.shield >= damage
     THEN [s EXCEPT !.pendingState =
             [shield |-> U8(p.shield - damage), health |-> p.health, isPending |-> TRUE]]
     ELSE IF p.health >= remainingDamage
     THEN [s EXCEPT !.pendingState =
             [shield |-> 0, health |-> U8(p.health - remainingDamage), isPending |-> TRUE]]
     ELSE [s EXCEPT !.pendingState =
             [shield |-> 0, health |-> 100, isPending |-> TRUE]]

VestApplyDamageToPendingState(s, damage) ==
  LET p == s.pendingState
      remainingDamage == U8(damage - p.shield)
  IN IF p.shield >= damage
     THEN [s EXCEPT !.pendingState =
             [shield |-> U8(p.shield - damage), health |-> p.health, isPending |-> TRUE]]
     ELSE IF p.health > remainingDamage
     THEN [s EXCEPT !.pendingState =
             [shield |-> 0, health |-> U8(p.health - remainingDamage), isPending |-> TRUE]]
     ELSE [s EXCEPT !.pendingState =
             [shield |-> 0, health |-> 100, isPending |-> TRUE]]

VestHandlePacket(s, packet, garbage) ==
  CASE packet.packetType = VESTSHOT_PACKET ->
         IF packet.sqn = s.sqn
         THEN [VestApplyPendingState(s) EXCEPT !.sqn = U8(s.sqn + 1),
                                               !.hist.quiet = FALSE]
         ELSE [VestSendNAKPacket(s, s.sqn, garbage) EXCEPT !.hist.quiet = FALSE]
    [] packet.packetType = UPDATE_STATE_PACKET ->
         IF packet.sqn = s.expectedSeqNum
         THEN LET a == VestSendPacket(
                         VestUpdatePendingState(s, packet.shield, packet.health),
                         VESTSTATE_ACK_PKT)
              IN [HistApplied(VestApplyPendingState(a), packet.sqn) EXCEPT
                    !.expectedSeqNum = U8(s.expectedSeqNum + 1),
                    !.hist.lastU = <<packet>>,
                    !.hist.lastUAck = a.out,
                    !.hist.quiet = TRUE]
         ELSE [VestSendNAKPacket(s, s.expectedSeqNum, garbage) EXCEPT
                 !.hist.quiet = s.hist.quiet /\ s.hist.lastU = <<packet>>]
    [] packet.packetType = NAK_PACKET ->
         [s EXCEPT !.out = Append(s.out, VestRetreivePacket(s, packet.sqn)),
                   !.hist.quiet = FALSE]
    [] packet.packetType = KILL_PACKET -> jmp0(s)
    [] OTHER -> [VestSendNAKPacket(s, s.expectedSeqNum, garbage) EXCEPT !.hist.quiet = FALSE]

\* loop(), the Serial block
VestLoopSerial(s, garbage) ==
  IF s.serial = <<>> THEN s
  ELSE
    LET packet == Head(s.serial)
        r == [s EXCEPT !.serial = Tail(s.serial)]
    IN IF VestCalculatedCRC(packet) = packet.crc
       THEN IF ~s.hasHandshake
            THEN CASE packet.packetType = SYN_PACKET ->
                        VestSendPacket(
                          VestUpdatePendingState(
                            [HistNewSession(r, <<packet.shield, packet.health>>) EXCEPT
                               !.sqn = 0, !.expectedSeqNum = 0],
                            packet.shield, packet.health),
                          ACK_PACKET)
                   [] packet.packetType = ACK_PACKET ->
                        [VestApplyPendingState(r) EXCEPT
                           !.hasHandshake = TRUE,
                           !.hist.synPayload = <<>>,
                           !.hist.quiet = FALSE]
                   [] OTHER -> r
            ELSE VestHandlePacket(r, packet, garbage)
       ELSE r

\* loop(), the IR receiver block: a decoded frame with command 0x16 is a hit
VestLoopIR(s, decoded) ==
  IF decoded = <<IR_HIT_COMMAND>>
  THEN HistShot(s, VestSendPacket(VestApplyDamageToPendingState(s, IR_DAMAGE),
                                  VESTSHOT_PACKET))
  ELSE s

VestSerialStage ==
  /\ role = "vest" /\ pc = "serial"
  /\ \E garbage \in GarbageBytes \X GarbageBytes :
       Commit(AfterSerial(St, VestLoopSerial(Begin(St), garbage)))

VestIRStage ==
  /\ role = "vest" /\ pc = "button"
  /\ \E decoded \in IrDecoded :
       /\ decoded = <<IR_HIT_COMMAND>> => env.shots < MaxShots
       /\ Commit([AfterShot(VestLoopIR(Begin(St), decoded), decoded = <<IR_HIT_COMMAND>>)
                    EXCEPT !.pc = "serial"])

\* ------------------------------------------------------------------------
\* The vest's host
\* ------------------------------------------------------------------------
VestValidFrames ==
  {VestPacket(SYN_PACKET, 0, v[1], v[2]) : v \in HostVitals}
    \cup {VestPacket(ACK_PACKET, 0, 0, 0), VestPacket(KILL_PACKET, 0, 0, 0),
          VestPacket(IMU_PACKET, 0, 0, 0)}
    \cup {VestPacket(t, n, 0, 0) : t \in {VESTSHOT_PACKET, NAK_PACKET}, n \in 0..MaxSeq}
    \cup {VestPacket(UPDATE_STATE_PACKET, n, v[1], v[2]) : n \in 0..MaxSeq, v \in HostVitals}

VestCorruptFrames ==
  {[VestPacket(SYN_PACKET, 0, 10, 4) EXCEPT !.crc = U8(@ + 1)],
   [VestPacket(VESTSHOT_PACKET, 0, 0, 0) EXCEPT !.sqn = 1],
   [VestPacket(UPDATE_STATE_PACKET, 0, 30, 100) EXCEPT !.health = 36]}

VestHostFrames == VestValidFrames \cup VestCorruptFrames

\* ------------------------------------------------------------------------
\* Gun variant: src/arduino/new_gun2.ino
\* ------------------------------------------------------------------------
Gun2CrcBytes(p) == <<p.packetType, p.sqn, p.shotID, p.remainingBullets>> \o p.padding

Gun2CalculatedCRC(p) == CRC8(Gun2CrcBytes(p))

Gun2Packet(packetType, seqNum, shot, bullets) ==
  LET p == [packetType |-> packetType, sqn |-> seqNum, shotID |-> shot,
            remainingBullets |-> bullets, padding |-> ZeroPad(15), crc |-> 0]
  IN [p EXCEPT !.crc = Gun2CalculatedCRC(p)]

Gun2UpdatePendingState(s, shot, bullets) ==
  [s EXCEPT !.pendingState =
     [currShot |-> shot, remainingBullets |-> bullets, isPending |-> TRUE]]

Gun2ApplyPendingState(s) ==
  IF s.pendingState.isPending
  THEN [s EXCEPT !.currShot = s.pendingState.currShot,
                 !.remainingBullets = s.pendingState.remainingBullets,
                 !.pendingState.isPending = FALSE]
  ELSE s

Gun2StorePacket(s, packet) ==
  [s EXCEPT !.packets[s.currBufferIdx] = packet,
            !.currBufferIdx = (s.currBufferIdx + 1) % PACKET_BUFFER_SIZE]

Gun2RetreivePacket(s, seqNum) == s.packets[seqNum % PACKET_BUFFER_SIZE]

Gun2SendPacket(s, packetType) ==
  LET packet == Gun2Packet(packetType, s.sqn,
                           IF s.pendingState.isPending
                           THEN s.pendingState.currShot ELSE s.currShot,
                           IF s.pendingState.isPending
                           THEN s.pendingState.remainingBullets ELSE s.remainingBullets)
      sent == [s EXCEPT !.out = Append(s.out, packet)]
  IN IF packetType # ACK_PACKET THEN Gun2StorePacket(sent, packet) ELSE sent

Gun2SendNAKPacket(s, seqNum, garbage) ==
  [s EXCEPT !.out = Append(s.out, Gun2Packet(NAK_PACKET, seqNum, garbage[1], garbage[2]))]

reloadMag(s) ==
  [s EXCEPT !.currShot = 1,
            !.remainingBullets = MAG_SIZE,
            !.pixels = [i \in 0..(NUMPIXELS - 1) |-> s.pixels[i] \/ i < MAG_SIZE]]

\* updateLED: setPixelColor ignores an index outside the strip
updateLED(s, bulletToOff) ==
  [s EXCEPT !.pixels = [i \in 0..(NUMPIXELS - 1) |->
                          IF i = bulletToOff THEN FALSE ELSE s.pixels[i]]]

\* loop(), ACK case: for (i = 1; i <= currShot; i++) updateLED(7 - i)
Gun2ShotsOff(s) ==
  [s EXCEPT !.pixels = [i \in 0..(NUMPIXELS - 1) |->
                          IF 7 - i >= 1 /\ 7 - i <= s.currShot THEN FALSE
                          ELSE s.pixels[i]]]

Gun2HandlePacket(s, packet, garbage) ==
  CASE packet.packetType = GUNSHOT_PACKET ->
         IF packet.sqn = s.sqn
         THEN LET a == Gun2ApplyPendingState([s EXCEPT !.waitingForGunACK = FALSE])
              IN [a EXCEPT !.sinceLastGunShot = 0,
                           !.currShot = U8(a.currShot + 1),
                           !.sqn = U8(s.sqn + 1),
                           !.hist.pressBullets = NoSeq,
                           !.hist.quiet = FALSE]
         ELSE [Gun2SendNAKPacket(s, s.sqn, garbage) EXCEPT !.hist.quiet = FALSE]
    [] packet.packetType = RELOAD_PACKET ->
         IF packet.sqn = s.expectedSeqNum
         THEN [HistApplied(Gun2SendPacket(reloadMag(s), RELOAD_PACKET), packet.sqn) EXCEPT
                 !.expectedSeqNum = U8(s.expectedSeqNum + 1),
                 !.hist.pressBullets = NoSeq,
                 !.hist.quiet = FALSE]
         ELSE [Gun2SendNAKPacket(s, s.expectedSeqNum, garbage) EXCEPT !.hist.quiet = FALSE]
    [] packet.packetType = UPDATE_STATE_PACKET ->
         IF packet.sqn = s.expectedSeqNum
         THEN LET a == Gun2SendPacket(
                         Gun2UpdatePendingState(s, packet.shotID, packet.remainingBullets),
                         GUNSTATE_ACK_PKT)
              IN [HistApplied(Gun2ApplyPendingState(a), packet.sqn) EXCEPT
                    !.expectedSeqNum = U8(s.expectedSeqNum + 1),
                    !.hist.pressBullets = NoSeq,
                    !.hist.lastU = <<packet>>,
                    !.hist.lastUAck = a.out,
                    !.hist.quiet = TRUE]
         ELSE [Gun2SendNAKPacket(s, s.expectedSeqNum, garbage) EXCEPT
                 !.hist.quiet = s.hist.quiet /\ s.hist.lastU = <<packet>>]
    [] packet.packetType = NAK_PACKET ->
         [s EXCEPT !.out = Append(s.out, Gun2RetreivePacket(s, packet.sqn)),
                   !.hist.quiet = FALSE]
    [] packet.packetType = KILL_PACKET -> jmp0(s)
    [] OTHER -> [Gun2SendNAKPacket(s, s.expectedSeqNum, garbage) EXCEPT !.hist.quiet = FALSE]

Gun2LoopSerial(s, garbage) ==
  IF s.serial = <<>> THEN s
  ELSE
    LET packet == Head(s.serial)
        r == [s EXCEPT !.serial = Tail(s.serial)]
    IN IF Gun2CalculatedCRC(packet) = packet.crc
       THEN IF ~s.hasHandshake
            THEN CASE packet.packetType = SYN_PACKET ->
                        Gun2SendPacket(
                          Gun2UpdatePendingState(
                            [HistNewSession(r, <<packet.shotID, packet.remainingBullets>>)
                               EXCEPT !.sqn = 0, !.expectedSeqNum = 0],
                            packet.shotID, packet.remainingBullets),
                          ACK_PACKET)
                   [] packet.packetType = ACK_PACKET ->
                        [Gun2ShotsOff(Gun2ApplyPendingState(r)) EXCEPT
                           !.hasHandshake = TRUE,
                           !.hist.synPayload = <<>>,
                           !.hist.pressBullets = NoSeq,
                           !.hist.quiet = FALSE]
                   [] OTHER -> r
            ELSE Gun2HandlePacket(r, packet, garbage)
       ELSE r

Gun2Press(s) ==
  IF s.remainingBullets > 0
  THEN LET fired == [s EXCEPT !.ir = TRUE, !.remainingBullets = s.remainingBullets - 1]
           sent == Gun2SendPacket(
                     Gun2UpdatePendingState(fired, fired.currShot, fired.remainingBullets),
                     GUNSHOT_PACKET)
       IN [updateLED(HistShot(s, sent), sent.pendingState.remainingBullets) EXCEPT
             !.waitingForGunACK = TRUE,
             !.sinceLastGunShot = 0,
             !.hist.pressBullets = IF s.hist.pressBullets = NoSeq
                                   THEN s.remainingBullets ELSE s.hist.pressBullets]
  ELSE s

Gun2ReadButton(s, reading) ==
  LET a == IF reading # s.lastButtonState THEN [s EXCEPT !.sinceLastDebounce = 0] ELSE s
      b == IF a.sinceLastDebounce > debounceDelay /\ reading # a.buttonState
           THEN LET c == [a EXCEPT !.buttonState = reading]
                IN IF reading = HIGH THEN Gun2Press(c) ELSE c
           ELSE a
  IN [b EXCEPT !.lastButtonState = reading]

Gun2LoopTimeout(s) ==
  IF s.waitingForGunACK /\ s.sinceLastGunShot > RESPONSE_TIMEOUT
  THEN [Gun2SendPacket(s, GUNSHOT_PACKET) EXCEPT !.sinceLastGunShot = 0,
                                                 !.hist.quiet = FALSE]
  ELSE s

Gun2SerialStage ==
  /\ role = "gun2" /\ pc = "serial"
  /\ \E garbage \in GarbageBytes \X GarbageBytes :
       Commit(AfterSerial(St, Gun2LoopSerial(Begin(St), garbage)))

Gun2ButtonStage ==
  /\ role = "gun2" /\ pc = "button"
  /\ \E reading \in {LOW, HIGH} :
       LET n == Gun2ReadButton(Begin(St), reading)
       IN /\ n.ir => env.shots < MaxShots
          /\ Commit([AfterShot(n, n.ir) EXCEPT !.pc = "imu"])

Gun2IMUStage ==
  /\ role = "gun2" /\ pc = "imu"
  /\ \E sample \in ImuSamples :
       Commit([GunLoopIMU(Begin(St), sample) EXCEPT !.pc = "timeout"])

Gun2TimeoutStage ==
  /\ role = "gun2" /\ pc = "timeout"
  /\ Commit([Gun2LoopTimeout(Begin(St)) EXCEPT !.pc = "serial"])

\* (currShot, remainingBullets) pairs the host puts in its frames
HostMagazines == {<<5, 2>>, <<2, 5>>}

Gun2ValidFrames ==
  {Gun2Packet(SYN_PACKET, 0, m[1], m[2]) : m \in HostMagazines}
    \cup {Gun2Packet(ACK_PACKET, 0, 0, 0), Gun2Packet(KILL_PACKET, 0, 0, 0),
          Gun2Packet(IMU_PACKET, 0, 0, 0)}
    \cup {Gun2Packet(t, n, 0, 0) : t \in {GUNSHOT_PACKET, RELOAD_PACKET, NAK_PACKET},
                                   n \in 0..MaxSeq}
    \cup {Gun2Packet(UPDATE_STATE_PACKET, n, m[1], m[2]) : n \in 0..MaxSeq,
                                                           m \in HostMagazines}

Gun2CorruptFrames ==
  {[Gun2Packet(SYN_PACKET, 0, 5, 2) EXCEPT !.crc = U8(@ + 1)],
   [Gun2Packet(UPDATE_STATE_PACKET, 0, 2, 5) EXCEPT !.shotID = 3]}

Gun2HostFrames == Gun2ValidFrames \cup Gun2CorruptFrames


\* ------------------------------------------------------------------------
\* Hand: src/unnamed/part_001.  The sketch keeps hasHandshake and
\* previousIMUMillis only; its loop() has the stages "serial" and "imu".
\* ------------------------------------------------------------------------
\* The type byte the hand sketch resets on
HAND_KILL_PACKET == 74

\* const unsigned long IMUinterval
IMUinterval == 50

\* struct Packet of the hand: the type byte, 18 padding bytes, the CRC byte
HandPacket(packetType) ==
  LET p == [packetType |-> packetType, padding |-> ZeroPad(18), crc |-> 0]
  IN [p EXCEPT !.crc = CRC8(<<p.packetType>> \o p.padding)]

\* The globals' initialisers, then setup(): mpu_setup() waits SETUP_DELAY
\* before the first loop(), previousIMUMillis is 0
HandSetup == [setup("hand") EXCEPT !.sincePreviousIMU = IMUinterval]

\* loop(), the Serial block
HandLoopSerial(s) ==
  IF s.serial = <<>> THEN s
  ELSE
    LET packet == Head(s.serial)
        r == [s EXCEPT !.serial = Tail(s.serial)]
    IN IF CRC8(<<packet.packetType>> \o packet.padding) = packet.crc
       THEN CASE packet.packetType = SYN_PACKET ->
                   [r EXCEPT !.hasHandshake = FALSE,
                             !.out = Append(r.out, HandPacket(ACK_PACKET))]
              [] packet.packetType = ACK_PACKET -> [r EXCEPT !.hasHandshake = TRUE]
              [] packet.packetType = HAND_KILL_PACKET -> [HandSetup EXCEPT !.env = s.env]
              [] OTHER -> r
       ELSE r

\* loop(), the IMU block that sends whenever hasHandshake holds
HandLoopIMUUntimed(s, sample) ==
  IF s.hasHandshake
  THEN sendIMUData([s EXCEPT !.sincePreviousIMU = 0], sample)
  ELSE s

\* loop(), the IMU block
HandLoopIMU(s, sample) ==
  IF s.hasHandshake /\ s.sincePreviousIMU >= IMUinterval
  THEN sendIMUData([s EXCEPT !.sincePreviousIMU = 0], sample)
  ELSE s

HandSerialStage ==
  /\ role = "hand" /\ pc = "serial"
  /\ Commit([HandLoopSerial(Begin(St)) EXCEPT !.pc = "imu", !.rx = serial])

HandIMUStage ==
  /\ role = "hand" /\ pc = "imu"
  /\ \E sample \in ImuSamples :
       Commit([HandLoopIMU(Begin(St), sample) EXCEPT !.pc = "serial"])

\* millis() advances by d between two iterations of loop()
HandTick(d) ==
  /\ role = "hand" /\ pc = "serial"
  /\ sincePreviousIMU < IMUinterval
  /\ Commit([Begin(St) EXCEPT !.sincePreviousIMU = Elapse(sincePreviousIMU, d, IMUinterval)])

\* The hand's host: the handshake frames, a frame with the hand's reset
\* type, KILL and IMU frames of the link protocol, and a damaged SYN
HostSendHand ==
  /\ role = "hand" /\ pc = "serial" /\ serial = <<>>
  /\ env.frames < MaxHostFrames
  /\ \E f \in {HandPacket(t) : t \in {SYN_PACKET, ACK_PACKET, HAND_KILL_PACKET,
                                     KILL_PACKET, IMU_PACKET}}
                \cup {[HandPacket(SYN_PACKET) EXCEPT !.crc = U8(@ + 1)]} :
       Commit([Begin(St) EXCEPT !.serial = <<f>>, !.env.frames = env.frames + 1])
\* ------------------------------------------------------------------------
\* The host
\* ------------------------------------------------------------------------
HostFrames(r) ==
  CASE r = "gun" -> GunHostFrames
    [] r = "vest" -> VestHostFrames
    [] OTHER -> Gun2HostFrames

\* A frame of the host reaches the UART receive buffer
HostSend ==
  /\ pc = "serial" /\ serial = <<>>
  /\ env.frames < MaxHostFrames
  /\ \E f \in HostFrames(role) :
       Commit([Begin(St) EXCEPT !.serial = <<f>>, !.env.frames = env.frames + 1])

\* ------------------------------------------------------------------------
\* Specifications
\* ------------------------------------------------------------------------
\* The gun, its host and its player
GunInit == Starts(setup("gun"))

GunNext ==
  \/ HostSend
  \/ Tick(RESPONSE_TIMEOUT + 1)
  \/ GunSerialStage
  \/ GunButtonStage
  \/ GunIMUStage
  \/ GunTimeoutStage

SpecGun == GunInit /\ [][GunNext]_vars

\* The vest, its host and the IR hits it takes
VestInit == Starts(setup("vest"))

VestNext ==
  \/ HostSend
  \/ VestSerialStage
  \/ VestIRStage

SpecVest == VestInit /\ [][VestNext]_vars

\* The gun or the vest
LinkInit == \E r \in {"gun", "vest"} : Starts(setup(r))

LinkNext ==
  \/ HostSend
  \/ Tick(RESPONSE_TIMEOUT + 1)
  \/ GunSerialStage
  \/ GunButtonStage
  \/ GunIMUStage
  \/ GunTimeoutStage
  \/ VestSerialStage
  \/ VestIRStage

SpecLink == LinkInit /\ [][LinkNext]_vars

\* The vest or the gun variant
ReconnectInit == \E r \in {"vest", "gun2"} : Starts(setup(r))

ReconnectNext ==
  \/ HostSend
  \/ Tick(RESPONSE_TIMEOUT + 1)
  \/ VestSerialStage
  \/ VestIRStage
  \/ Gun2SerialStage
  \/ Gun2ButtonStage
  \/ Gun2IMUStage
  \/ Gun2TimeoutStage

SpecReconnect == ReconnectInit /\ [][ReconnectNext]_vars

\* ------------------------------------------------------------------------
\* A long session of the gun: the host streams UPDATE_STATE frames in order
\* and replays the one accepted last; the trigger is not pressed
\* ------------------------------------------------------------------------
\* The host stops after MaxStream accepted frames
MaxStream == 257

HostStream ==
  /\ role = "gun" /\ pc = "serial" /\ serial = <<>>
  /\ Len(hist.applied) < MaxStream
  /\ \E f \in {GunPacket(ACK_PACKET, 0, 0),
               GunPacket(UPDATE_STATE_PACKET, expectedSeqNum, 2)}
                \cup {hist.lastU[i] : i \in DOMAIN hist.lastU} :
       Commit([Begin(St) EXCEPT !.serial = <<f>>])

GunWrapInit ==
  Starts([setup("gun") EXCEPT !.env = [frames |-> MaxHostFrames, shots |-> MaxShots]])

GunWrapNext ==
  \/ HostStream
  \/ Tick(RESPONSE_TIMEOUT + 1)
  \/ GunSerialStage
  \/ GunButtonStage
  \/ GunIMUStage
  \/ GunTimeoutStage

SpecGunWrap == GunWrapInit /\ [][GunWrapNext]_vars

\* ------------------------------------------------------------------------
\* Damage: the vest after a handshake whose SYN carried (sh, hp), then hit
\* up to MaxHits times with no echo in between
\* ------------------------------------------------------------------------
MaxHits == 3

\* The damage rule of the link specification, in unbounded integers
ReferenceDamage(v) ==
  IF v[1] >= IR_DAMAGE THEN <<v[1] - IR_DAMAGE, v[2]>>
  ELSE IF v[2] - (IR_DAMAGE - v[1]) <= 0 THEN <<0, 100>>
  ELSE <<0, v[2] - (IR_DAMAGE - v[1])>>

Handshaken(sh, hp) ==
  LET none == <<0, 0>>
      s1 == VestLoopSerial([setup("vest") EXCEPT
                              !.serial = <<VestPacket(SYN_PACKET, 0, sh, hp)>>], none)
      s2 == VestLoopSerial([s1 EXCEPT !.serial = <<VestPacket(ACK_PACKET, 0, 0, 0)>>], none)
  IN [Begin(s2) EXCEPT !.pc = "button", !.refState = <<sh, hp>>]

DamageInit ==
  \E sh \in 0..MAX_SHIELD, hp \in 1..MAX_HEALTH : Starts(Handshaken(sh, hp))

DamageHit ==
  /\ role = "vest" /\ pc = "button"
  /\ hits < MaxHits
  /\ Commit([VestLoopIR(Begin(St), <<IR_HIT_COMMAND>>) EXCEPT
               !.hits = hits + 1,
               !.refState = ReferenceDamage(refState)])

DamageNext == DamageHit

SpecDamage == DamageInit /\ [][DamageNext]_vars


\* ------------------------------------------------------------------------
\* Any of the three sketches
\* ------------------------------------------------------------------------
AllInit == \E r \in {"gun", "vest", "gun2"} : Starts(setup(r))

AllNext ==
  \/ HostSend
  \/ Tick(RESPONSE_TIMEOUT + 1)
  \/ GunSerialStage
  \/ GunButtonStage
  \/ GunIMUStage
  \/ GunTimeoutStage
  \/ VestSerialStage
  \/ VestIRStage
  \/ Gun2SerialStage
  \/ Gun2ButtonStage
  \/ Gun2IMUStage
  \/ Gun2TimeoutStage

SpecAll == AllInit /\ [][AllNext]_vars

\* ------------------------------------------------------------------------
\* The gun with a clock that also stops exactly RESPONSE_TIMEOUT after a
\* transmission
\* ------------------------------------------------------------------------
GunTimedNext ==
  \/ HostSend
  \/ Tick(RESPONSE_TIMEOUT)
  \/ Tick(RESPONSE_TIMEOUT + 1)
  \/ GunSerialStage
  \/ GunButtonStage
  \/ GunIMUStage
  \/ GunTimeoutStage

SpecGunTimed == GunInit /\ [][GunTimedNext]_vars

\* ------------------------------------------------------------------------
\* The gun or the vest with a host whose SYN and UPDATE_STATE frames carry
\* payload bytes at and beyond the edges of the ranges the sketches keep
\* ------------------------------------------------------------------------
PayloadBytes == {0, 7, 255}

GunBytesFrames ==
  {GunPacket(ACK_PACKET, 0, 0)}
    \cup {GunPacket(t, 0, b) : t \in {SYN_PACKET, UPDATE_STATE_PACKET},
                               b \in PayloadBytes}

VestBytesFrames ==
  {VestPacket(ACK_PACKET, 0, 0, 0)}
    \cup {VestPacket(t, 0, sh, hp) : t \in {SYN_PACKET, UPDATE_STATE_PACKET},
                                     sh \in PayloadBytes, hp \in PayloadBytes}

HostSendBytes ==
  /\ pc = "serial" /\ serial = <<>>
  /\ env.frames < MaxHostFrames
  /\ \E f \in (IF role = "gun" THEN GunBytesFrames ELSE VestBytesFrames) :
       Commit([Begin(St) EXCEPT !.serial = <<f>>, !.env.frames = env.frames + 1])

BytesNext ==
  \/ HostSendBytes
  \/ Tick(RESPONSE_TIMEOUT + 1)
  \/ GunSerialStage
  \/ GunButtonStage
  \/ GunIMUStage
  \/ GunTimeoutStage
  \/ VestSerialStage
  \/ VestIRStage

SpecBytes == LinkInit /\ [][BytesNext]_vars


\* ------------------------------------------------------------------------
\* The gun on a working link: no frame is lost or damaged, the host opens
\* the session, sends its commands in order and echoes the GUNSHOT frames it
\* receives, loop() runs again and again, and the echo of a shot that
\* awaits it is not withheld for ever
\* ------------------------------------------------------------------------
GunSessionFrames ==
  IF ~hasHandshake
  THEN {GunPacket(SYN_PACKET, 0, b) : b \in HostBullets} \cup {GunPacket(ACK_PACKET, 0, 0)}
  ELSE {GunPacket(RELOAD_PACKET, expectedSeqNum, 0), GunPacket(NAK_PACKET, sqn, 0)}
         \cup {GunPacket(UPDATE_STATE_PACKET, expectedSeqNum, b) : b \in HostBullets}

HostSession ==
  /\ role = "gun" /\ pc = "serial" /\ serial = <<>>
  /\ env.frames < MaxHostFrames
  /\ \E f \in GunSessionFrames :
       Commit([Begin(St) EXCEPT !.serial = <<f>>, !.env.frames = env.frames + 1])

\* The GUNSHOT frames of the ring: what the gun transmitted last
SentGunshots ==
  {packets[i] : i \in {j \in DOMAIN packets : packets[j].packetType = GUNSHOT_PACKET}}

\* The host's echo of a GUNSHOT frame that carries the gun's current sqn
HostEchoShot ==
  /\ role = "gun" /\ pc = "serial" /\ serial = <<>>
  /\ hasHandshake /\ waitingForGunACK
  /\ \E f \in {g \in SentGunshots : g.sqn = sqn} :
       Commit([Begin(St) EXCEPT !.serial = <<f>>])

\* The host's echo of another GUNSHOT frame: a retransmission that was
\* echoed already, or a frame of an earlier shot
HostEchoStale ==
  /\ role = "gun" /\ pc = "serial" /\ serial = <<>>
  /\ hasHandshake
  /\ \E f \in {g \in SentGunshots : ~waitingForGunACK \/ g.sqn # sqn} :
       Commit([Begin(St) EXCEPT !.serial = <<f>>])

GunEchoNext ==
  \/ HostSession
  \/ HostEchoShot
  \/ HostEchoStale
  \/ Tick(RESPONSE_TIMEOUT + 1)
  \/ GunSerialStage
  \/ GunButtonStage
  \/ GunIMUStage
  \/ GunTimeoutStage

\* loop() runs its next stage
LoopAdvances ==
  /\ role = "gun" /\ hasHandshake
  /\ pc' = CASE pc = "serial" -> "button"
              [] pc = "button" -> "imu"
              [] pc = "imu" -> "timeout"
              [] OTHER -> "serial"

SpecGunEcho ==
  /\ GunInit
  /\ [][GunEchoNext]_vars
  /\ WF_pc(LoopAdvances)
  /\ SF_vars(HostEchoShot)

\* ------------------------------------------------------------------------
\* The vest whose loop() runs again and again
\* ------------------------------------------------------------------------
\* loop() runs its next stage
VestLoopAdvances ==
  /\ role = "vest" /\ hasHandshake
  /\ pc' = IF pc = "serial" THEN "button" ELSE "serial"

SpecVestLoop ==
  /\ VestInit
  /\ [][VestNext]_vars
  /\ WF_pc(VestLoopAdvances)

\* ------------------------------------------------------------------------
\* The gun late in a session: after the handshake the host sends
\* PriorEchoes GUNSHOT frames, each with the seq the gun is at, while the
\* player is idle, so that sqn stands at the end of its 8-bit range; then
\* the host and the player act as in SpecGun
\* ------------------------------------------------------------------------
PriorEchoes == 255

\* Until the stream ends the player is away: env.shots is beyond MaxShots
GunLateInit ==
  Starts([setup("gun") EXCEPT !.env = [frames |-> 0, shots |-> MaxShots + 1]])

\* The host's GUNSHOT frames before the player acts; with the last of them
\* the frames of the host and the presses of the player start to count
HostEchoStream ==
  /\ role = "gun" /\ pc = "serial" /\ serial = <<>>
  /\ env.shots > MaxShots
  /\ sqn < PriorEchoes
  /\ \E f \in IF hasHandshake THEN {GunPacket(GUNSHOT_PACKET, sqn, 0)}
                ELSE {GunPacket(ACK_PACKET, 0, 0)} :
       Commit([Begin(St) EXCEPT
                 !.serial = <<f>>,
                 !.env = IF hasHandshake /\ sqn = PriorEchoes - 1 THEN EnvBoot ELSE env])

\* The host's frames, and its GUNSHOT with the seq the gun is at
HostSendLate ==
  /\ role = "gun" /\ pc = "serial" /\ serial = <<>>
  /\ env.shots <= MaxShots
  /\ env.frames < MaxHostFrames
  /\ \E f \in GunHostFrames \cup {GunPacket(GUNSHOT_PACKET, sqn, 0)} :
       Commit([Begin(St) EXCEPT !.serial = <<f>>, !.env.frames = env.frames + 1])

GunLateNext ==
  \/ HostEchoStream
  \/ HostSendLate
  \/ Tick(RESPONSE_TIMEOUT + 1)
  \/ GunSerialStage
  \/ GunButtonStage
  \/ GunIMUStage
  \/ GunTimeoutStage

SpecGunLate == GunLateInit /\ [][GunLateNext]_vars

\* ------------------------------------------------------------------------
\* The sketches that send IMU frames: the gun or the hand.  The hand's clock
\* also stops one millisecond before IMUinterval has passed.
\* ------------------------------------------------------------------------
TelemetryInit == Starts(setup("gun")) \/ Starts(HandSetup)

TelemetryNext ==
  \/ HostSend /\ role = "gun"
  \/ Tick(RESPONSE_TIMEOUT + 1)
  \/ GunSerialStage
  \/ GunButtonStage
  \/ GunIMUStage
  \/ GunTimeoutStage
  \/ HostSendHand
  \/ HandTick(IMUinterval - 1)
  \/ HandTick(1)
  \/ HandSerialStage
  \/ HandIMUStage

SpecTelemetry == TelemetryInit /\ [][TelemetryNext]_vars
\* ------------------------------------------------------------------------
\* Properties
\* ------------------------------------------------------------------------
\* The frame at the head of the UART receive buffer
Rx == Head(serial)

\* This step runs the Serial block on a complete frame
SerialStep == pc = "serial" /\ serial # <<>> /\ serial' # serial

\* The CRC-8 over bytes 0..18 of the frame equals its byte 19
CrcVerifies(p) ==
  p.crc = CRC8(CASE role = "gun" -> GunCrcBytes(p)
                 [] role = "vest" -> VestCrcBytes(p)
                 [] OTHER -> Gun2CrcBytes(p))

\* This step handles a frame whose CRC verifies
HandlesFrame == SerialStep /\ CrcVerifies(Rx)

\* C1: in the gun and the vest a frame whose CRC-8 over bytes 0..18 differs
\* from byte 19 is not handled: the step that reads it leaves hasHandshake,
\* sqn, expectedSeqNum, the pending state and the canonical role state
\* unchanged.
C1_BadCrcFrameChangesNothing ==
  [][(SerialStep /\ ~CrcVerifies(Rx)) =>
       UNCHANGED <<hasHandshake, sqn, expectedSeqNum, pendingState,
                   remainingBullets, shield, health>>]_vars

\* A corrupted SYN was read and dropped in the middle of a session
C1_Witness ==
  /\ hasHandshake /\ pc = "button"
  /\ rx # <<>> /\ rx[1].packetType = SYN_PACKET /\ ~CrcVerifies(rx[1])

\* C2: a trigger press of the gun whose GUNSHOT is never echoed, and is
\* abandoned after MAX_RESEND_COUNT resends, leaves canonical
\* remainingBullets at its value before the press.
C2_AbandonedShotKeepsCanonical ==
  (/\ role = "gun" /\ hist.pressBullets # NoSeq
   /\ waitingForGunACK /\ packetResendCount = MAX_RESEND_COUNT
   /\ sinceLastGunShot > RESPONSE_TIMEOUT)
    => remainingBullets = hist.pressBullets

\* This step handles a frame that acknowledges: the closing handshake ACK, a
\* GUNSHOT echo with the current sqn, an in-order RELOAD or UPDATE_STATE
PositiveAck ==
  /\ HandlesFrame
  /\ \/ Rx.packetType = ACK_PACKET
     \/ /\ hasHandshake /\ Rx.packetType = GUNSHOT_PACKET /\ Rx.sqn = sqn
     \/ /\ hasHandshake /\ Rx.packetType \in {RELOAD_PACKET, UPDATE_STATE_PACKET}
        /\ Rx.sqn = expectedSeqNum

\* This step handles KILL: the sketch restarts
Reboots == HandlesFrame /\ hasHandshake /\ Rx.packetType = KILL_PACKET

\* C3: within a session canonical remainingBullets of the gun changes only
\* in a step that handles a positive acknowledgement; a trigger press leaves
\* it unchanged.
C3_CanonicalChangesOnlyOnAck ==
  [][(role = "gun" /\ ~Reboots /\ remainingBullets' # remainingBullets)
       => PositiveAck]_vars

\* C4: two GUNSHOT (gun) or VESTSHOT (vest) frames of one session that come
\* from different presses or hits carry different seq values.
C4_ShotsCarryDistinctSeq ==
  \A i, j \in DOMAIN hist.shots : i # j => hist.shots[i] # hist.shots[j]

\* C5: a replay of the UPDATE_STATE frame the gun accepted last leaves
\* canonical remainingBullets, expectedSeqNum, sqn and the pending state
\* unchanged and transmits exactly one GUNSTATE_ACK, the same bytes as the
\* first one when nothing else was handled in between.
C5_ReplayOnlyRepeatsAck ==
  [][(role = "gun" /\ HandlesFrame /\ hasHandshake /\ hist.lastU = <<Rx>>) =>
       /\ UNCHANGED <<remainingBullets, expectedSeqNum, sqn, pendingState>>
       /\ Len(out') = 1 /\ out'[1].packetType = GUNSTATE_ACK_PKT
       /\ hist.quiet => out' = hist.lastUAck]_vars

\* C6: the vest answers an UPDATE_STATE frame whose seq is below
\* expectedSeqNum, within the window of PACKET_BUFFER_SIZE frames, with one
\* VESTSTATE_ACK and no NAK, and leaves shield and health as they are.
C6_DuplicateUpdateIsReAcked ==
  [][(/\ role = "vest" /\ HandlesFrame /\ hasHandshake
      /\ Rx.packetType = UPDATE_STATE_PACKET
      /\ Rx.sqn < expectedSeqNum
      /\ expectedSeqNum - Rx.sqn <= PACKET_BUFFER_SIZE) =>
       /\ Len(out') = 1 /\ out'[1].packetType = VESTSTATE_ACK_PKT
       /\ UNCHANGED <<shield, health>>]_vars

\* C7: in the gun and the vest the host frames applied in a session carry
\* the seq values 0, 1, 2, ... (mod 256) in this order: none twice, none
\* across a gap.
C7_AppliedInSequenceOrder ==
  \A i \in DOMAIN hist.applied : hist.applied[i] = (i - 1) % 256

\* Two host frames were applied, one after the other
C7_Witness ==
  /\ hist.applied = <<0, 1>>
  /\ rx # <<>> /\ rx[1].sqn = 1

\* C8: a valid SYN read by the gun while hasHandshake holds drops
\* hasHandshake, resets sqn and expectedSeqNum to 0, latches the SYN's
\* payload as pending and is answered by one ACK; the ACK that follows
\* raises hasHandshake with both counters 0 and canonical remainingBullets
\* equal to the SYN's payload.
C8_SynWhileHandshakenReconnects ==
  [][(role = "gun" /\ HandlesFrame) =>
       /\ (hasHandshake /\ Rx.packetType = SYN_PACKET) =>
            /\ ~hasHandshake' /\ sqn' = 0 /\ expectedSeqNum' = 0
            /\ pendingState' = [remainingBullets |-> Rx.remainingBullets,
                                isPending |-> TRUE]
            /\ out' = <<GunPacket(ACK_PACKET, 0, Rx.remainingBullets)>>
       /\ (hist.resync /\ hist.synPayload # <<>> /\ Rx.packetType = ACK_PACKET) =>
            /\ hasHandshake' /\ sqn' = 0 /\ expectedSeqNum' = 0
            /\ remainingBullets' = hist.synPayload[1]]_vars

\* The ACK after a mid-session SYN was handled: the SYN's payload, which
\* differs from the magazine the gun had, is canonical
C8_Witness ==
  /\ role = "gun" /\ hasHandshake /\ hist.resync /\ hist.synPayload = <<>>
  /\ rx # <<>> /\ rx[1].packetType = ACK_PACKET
  /\ remainingBullets \in HostBullets /\ sqn = 0 /\ expectedSeqNum = 0

\* C9: a valid SYN read by the vest or the gun variant while hasHandshake
\* holds is a reconnection: hasHandshake drops, sqn and expectedSeqNum are
\* reset to 0, the pending state is latched and one ACK is transmitted.
C9_SynWhileHandshakenIsReconnection ==
  [][(/\ role \in {"vest", "gun2"} /\ HandlesFrame
      /\ hasHandshake /\ Rx.packetType = SYN_PACKET) =>
       /\ ~hasHandshake' /\ sqn' = 0 /\ expectedSeqNum' = 0
       /\ pendingState'.isPending
       /\ Len(out') = 1 /\ out'[1].packetType = ACK_PACKET]_vars

\* C10: applyDamageToPendingState(5), applied n times to a pending state
\* with shield in 0..30 and health in 1..100, gives the reference rule
\* applied n times, in range (no 8-bit underflow), with isPending set.
C10_DamageMatchesReference ==
  hits > 0 =>
    /\ pendingState.shield = refState[1] /\ pendingState.shield \in 0..MAX_SHIELD
    /\ pendingState.health = refState[2] /\ pendingState.health \in 1..MAX_HEALTH
    /\ pendingState.isPending

\* A second hit took the last health points: the pending state snapped to
\* (0, 100) while the canonical state still holds what the SYN carried
C10_Witness ==
  /\ hits = 2 /\ shield = 0 /\ health \in 6..10
  /\ pendingState = [shield |-> 0, health |-> 100, isPending |-> TRUE]

\* C11: in the gun and the vest the step that reads a frame whose CRC-8 does
\* not verify empties the receive buffer and transmits exactly one NAK whose
\* seq field is expectedSeqNum.
C11_BadCrcFrameIsNaked ==
  [][(role \in {"gun", "vest"} /\ SerialStep /\ ~CrcVerifies(Rx)) =>
       /\ serial' = <<>>
       /\ Len(out') = 1
       /\ out'[1].packetType = NAK_PACKET
       /\ out'[1].sqn = expectedSeqNum]_vars

\* The ring slot was written by storePacket (a slot never written holds 0s)
Stored(i) == packets[i].packetType # 0

\* C12: in the gun and the vest every stored frame with seq n sits in ring
\* slot n mod PACKET_BUFFER_SIZE, so that NAK(n) retransmits the frame whose
\* seq field is n.
C12_StoredFrameSitsInSeqSlot ==
  role \in {"gun", "vest"} =>
    \A i \in DOMAIN packets :
      Stored(i) => packets[i].sqn % PACKET_BUFFER_SIZE = i

\* C13: in the gun and the vest a NAK(n) handled while no stored frame of
\* the ring has seq n is answered by one KILL frame and a reset, not by the
\* retransmission of a ring slot.
C13_NakForUnheldSeqKills ==
  [][(/\ role \in {"gun", "vest"} /\ HandlesFrame /\ hasHandshake
      /\ Rx.packetType = NAK_PACKET
      /\ \A i \in DOMAIN packets : ~(Stored(i) /\ packets[i].sqn = Rx.sqn)) =>
       /\ Len(out') = 1 /\ out'[1].packetType = KILL_PACKET
       /\ ~hasHandshake']_vars

\* Frame types that carry shots, IMU samples or role acknowledgements
RoleFrames ==
  {GUNSHOT_PACKET, VESTSHOT_PACKET, IMU_PACKET, GUNSTATE_ACK_PKT, VESTSTATE_ACK_PKT}

\* C14: while hasHandshake is false a frame with a valid CRC and a type
\* other than SYN and ACK is dropped by each of the three sketches: nothing
\* is transmitted and hasHandshake, sqn, expectedSeqNum, the pending and the
\* canonical state are unchanged; and a step that starts or ends with
\* hasHandshake false transmits no GUNSHOT, VESTSHOT, IMU or role-ACK frame.
C14_OnlyHandshakeBeforeHandshake ==
  [][/\ (HandlesFrame /\ ~hasHandshake
         /\ Rx.packetType \notin {SYN_PACKET, ACK_PACKET}) =>
          /\ out' = <<>>
          /\ UNCHANGED <<hasHandshake, sqn, expectedSeqNum, pendingState,
                         remainingBullets, currShot, shield, health>>
     /\ (~hasHandshake \/ ~hasHandshake') =>
          \A i \in DOMAIN out' : out'[i].packetType \notin RoleFrames]_vars

\* The gun variant read a valid UPDATE_STATE before its handshake and
\* dropped it
C14_Witness ==
  /\ role = "gun2" /\ ~hasHandshake /\ pc = "serial" /\ out = <<>>
  /\ rx # <<>> /\ CrcVerifies(rx[1]) /\ rx[1].packetType = UPDATE_STATE_PACKET

\* The canonical role state after this step, as the SYN payload is recorded
CanonicalNext ==
  IF role = "vest" THEN <<shield', health'>> ELSE remainingBullets'

\* C15: from power-up, the host's SYN carrying the role state s is answered
\* by one ACK frame with seq 0 and the state s; after the host's ACK the gun
\* or vest has hasHandshake true, sqn and expectedSeqNum 0, isPending false
\* and the canonical role state s.
C15_FirstHandshakeInstallsSynState ==
  [][(role \in {"gun", "vest"} /\ HandlesFrame) =>
       /\ (env.frames = 1 /\ Rx.packetType = SYN_PACKET) =>
            out' = <<IF role = "gun"
                     THEN GunPacket(ACK_PACKET, 0, Rx.remainingBullets)
                     ELSE VestPacket(ACK_PACKET, 0, Rx.shield, Rx.health)>>
       /\ (env.frames = 2 /\ Rx.packetType = ACK_PACKET /\ hist.synPayload # <<>>) =>
            /\ hasHandshake' /\ sqn' = 0 /\ expectedSeqNum' = 0
            /\ ~pendingState'.isPending
            /\ CanonicalNext = hist.synPayload[1]]_vars

\* The vest's first two frames were SYN(10, 4) and ACK
C15_Witness ==
  /\ role = "vest" /\ hasHandshake /\ env.frames = 2 /\ ~hist.resync
  /\ rx # <<>> /\ rx[1].packetType = ACK_PACKET
  /\ shield = 10 /\ health = 4 /\ ~pendingState.isPending

\* This step handles the echo of the gun's shot: a GUNSHOT with the current sqn
ShotEcho ==
  HandlesFrame /\ hasHandshake /\ Rx.packetType = GUNSHOT_PACKET /\ Rx.sqn = sqn

\* C16, as the code has it: packetResendCount of the gun stays in
\* 0..MAX_RESEND_COUNT; the timeout block transmits only one GUNSHOT, only
\* while a shot is unacknowledged, more than RESPONSE_TIMEOUT after the last
\* press or retransmission and while packetResendCount is below
\* MAX_RESEND_COUNT, which it increments; and packetResendCount goes down
\* only on the echo or a restart.  (A NAK of the host may make the gun
\* transmit the stored GUNSHOT once more, at any time.)
C16_TimeoutResendsAreBounded ==
  [][role = "gun" =>
       /\ packetResendCount \in 0..MAX_RESEND_COUNT
       /\ packetResendCount' \in 0..MAX_RESEND_COUNT
       /\ (pc = "timeout" /\ out' # <<>>) =>
            /\ waitingForGunACK /\ sinceLastGunShot > RESPONSE_TIMEOUT
            /\ packetResendCount < MAX_RESEND_COUNT
            /\ packetResendCount' = packetResendCount + 1
            /\ sinceLastGunShot' = 0
            /\ Len(out') = 1 /\ out'[1].packetType = GUNSHOT_PACKET
       /\ (pc # "timeout" /\ ~ir') =>
            \A i \in DOMAIN out' :
              out'[i].packetType = GUNSHOT_PACKET =>
                HandlesFrame /\ Rx.packetType = NAK_PACKET
       /\ packetResendCount' < packetResendCount => (ShotEcho \/ Reboots)]_vars

\* The third retransmission of an unacknowledged shot was just sent
C16_Witness ==
  /\ role = "gun" /\ pc = "serial" /\ waitingForGunACK
  /\ packetResendCount = MAX_RESEND_COUNT /\ sinceLastGunShot = 0
  /\ Len(out) = 1 /\ out[1].packetType = GUNSHOT_PACKET

\* C16, as stated: every GUNSHOT frame the gun transmits again, after the
\* press that made it, is sent more than RESPONSE_TIMEOUT after the previous
\* transmission and while fewer than MAX_RESEND_COUNT retransmissions were
\* made.
C16_EveryGunshotResendWaits ==
  [][(/\ role = "gun" /\ ~ir'
      /\ \E i \in DOMAIN out' : out'[i].packetType = GUNSHOT_PACKET) =>
       /\ sinceLastGunShot > RESPONSE_TIMEOUT
       /\ packetResendCount < MAX_RESEND_COUNT]_vars

\* C17: in every reachable state of the gun canonical remainingBullets and
\* the pending remainingBullets are within 0..MAG_SIZE, whatever payload
\* bytes the host's SYN and UPDATE_STATE frames carry.
C17_BulletsWithinMagazine ==
  role = "gun" =>
    /\ remainingBullets \in 0..MAG_SIZE
    /\ pendingState.remainingBullets \in 0..MAG_SIZE

\* C18: in every reachable state of the vest canonical health is not 0,
\* whatever payload bytes the host's SYN and UPDATE_STATE frames carry.
C18_HealthNeverZero == role = "vest" => health # 0

\* This step accepts an in-order RELOAD or UPDATE_STATE, or handles the ACK
\* that closes a handshake
HostSetsState ==
  /\ HandlesFrame
  /\ \/ Rx.packetType = ACK_PACKET
     \/ /\ hasHandshake /\ Rx.packetType \in {RELOAD_PACKET, UPDATE_STATE_PACKET}
        /\ Rx.sqn = expectedSeqNum

\* C19: in the gun a step that raises canonical remainingBullets accepts an
\* in-order RELOAD or UPDATE_STATE or handles the closing handshake ACK; a
\* step that lowers it is one of those or a trigger press.  The echo of a
\* GUNSHOT never raises it.
C19_BulletsRiseOnlyByHost ==
  [][(role = "gun" /\ ~Reboots) =>
       /\ remainingBullets' > remainingBullets => HostSetsState
       /\ remainingBullets' < remainingBullets => (HostSetsState \/ ir')]_vars

\* The pending copy's payload equals the canonical role state.  While
\* isPending is false the pending copy still holds the value promoted last
\* (or, before any promotion, the power-up state it was initialised from):
\* every write to it raises isPending, and a promotion only lowers the flag.
CanonicalIsPendingCopy ==
  IF role = "vest"
  THEN shield = pendingState.shield /\ health = pendingState.health
  ELSE remainingBullets = pendingState.remainingBullets

\* C20: in every reachable state of the gun and the vest isPending holds or
\* the canonical role state equals the value promoted last from the pending
\* copy (the claim asks for exactly one of the two; a state with neither
\* refutes it).
C20_PendingOrPromoted ==
  role \in {"gun", "vest"} => (pendingState.isPending \/ CanonicalIsPendingCopy)

\* This step handles the echo of the vest's hit: a VESTSHOT with the current sqn
HitEcho ==
  HandlesFrame /\ hasHandshake /\ Rx.packetType = VESTSHOT_PACKET /\ Rx.sqn = sqn

\* C21: the damage of an IR hit of the vest is reflected in canonical
\* (shield, health) by the time the echo of its VESTSHOT has been handled,
\* also when the host's UPDATE_STATE arrived between the hit and the echo.
\* Checked for the first hit of a session, not echoed yet: canonical (shield, health) is what
\* the host set last until the echo is handled, and the step that handles
\* the echo changes it.
C21_HitDamageReflectedByEcho ==
  [][(role = "vest" /\ HitEcho /\ hist.shots = <<0>> /\ sqn = 0) =>
       <<shield', health'>> # <<shield, health>>]_vars

\* C22: the step in which the gun or the vest handles a valid KILL frame,
\* with hasHandshake true or false, ends in the power-up state: hasHandshake
\* false, sqn and expectedSeqNum 0, isPending false, no shot awaiting its
\* echo, packetResendCount 0 and the canonical role state at its default.
C22_KillResetsInAnyState ==
  [][(role \in {"gun", "vest"} /\ HandlesFrame /\ Rx.packetType = KILL_PACKET) =>
       /\ ~hasHandshake' /\ sqn' = 0 /\ expectedSeqNum' = 0
       /\ ~pendingState'.isPending
       /\ ~waitingForGunACK' /\ packetResendCount' = 0
       /\ remainingBullets' = setup(role).remainingBullets
       /\ shield' = setup(role).shield
       /\ health' = setup(role).health]_vars

\* C23: on a working link, with the gun handshaken and the host echoing the
\* GUNSHOT frames it receives, a shot that awaits its echo leads to a state
\* in which waitingForGunACK and isPending are both false; and while
\* waitingForGunACK is false the timeout block transmits nothing.
C23_ShotIsEventuallyAcknowledged ==
  /\ (role = "gun" /\ waitingForGunACK)
       ~> (~waitingForGunACK /\ ~pendingState.isPending)
  /\ [][(role = "gun" /\ pc = "timeout" /\ ~waitingForGunACK) => out' = <<>>]_vars

\* The echo of a shot was handled after the shot had been retransmitted: the
\* ring holds the GUNSHOT frame of the one press twice
C23_Witness ==
  /\ role = "gun" /\ hasHandshake /\ env.shots = 1 /\ sqn = 1
  /\ ~waitingForGunACK /\ ~pendingState.isPending
  /\ rx # <<>> /\ rx[1].packetType = GUNSHOT_PACKET /\ rx[1].sqn = 0
  /\ packets[0].packetType = GUNSHOT_PACKET /\ packets[1] = packets[0]

\* C24: a trigger press of the gun (the step that emits the IR code) sets
\* waitingForGunACK, restarts the time since the last shot and sets
\* packetResendCount to 0, so that the new shot has a full budget of
\* MAX_RESEND_COUNT retransmissions whatever became of the shot before it.
C24_PressStartsFreshBudget ==
  [][(role = "gun" /\ ir') =>
       /\ waitingForGunACK'
       /\ sinceLastGunShot' = 0
       /\ packetResendCount' = 0]_vars

\* C25: a VESTSHOT frame of the vest that is not echoed is transmitted
\* again: while loop() keeps running, a hit that was never echoed leads to a
\* state in which the echo was handled, the session has ended or a VESTSHOT
\* frame was transmitted by the last step.
C25_UnechoedVestshotIsResent ==
  (role = "vest" /\ hasHandshake /\ hist.shots # <<>> /\ sqn = 0 /\ out = <<>>)
    ~> \/ sqn > 0
       \/ ~hasHandshake
       \/ \E i \in DOMAIN out : out[i].packetType = VESTSHOT_PACKET

\* The frame that storePacket stored k calls ago
LastStored(k) ==
  packets[(currBufferIdx + PACKET_BUFFER_SIZE - k) % PACKET_BUFFER_SIZE]

\* The ring still holds a GUNSHOT frame
HoldsGunshot ==
  \E k \in 1..PACKET_BUFFER_SIZE : LastStored(k).packetType = GUNSHOT_PACKET

\* The GUNSHOT frame stored last: the frame of the last press, or a
\* retransmission of it
LatestGunshot ==
  LastStored(CHOOSE k \in 1..PACKET_BUFFER_SIZE :
               /\ LastStored(k).packetType = GUNSHOT_PACKET
               /\ \A j \in 1..(k - 1) : LastStored(j).packetType # GUNSHOT_PACKET)

\* C26: the GUNSHOT frame that the gun's timeout block transmits is
\* byte-identical (type, seq, remainingBullets, padding, CRC) to the GUNSHOT
\* frame transmitted last before it, which is the frame of the press or an
\* earlier retransmission of it, whatever was handled in between.
C26_TimeoutResendIsIdentical ==
  [][(role = "gun" /\ pc = "timeout" /\ out' # <<>> /\ HoldsGunshot) =>
       out'[1] = LatestGunshot]_vars

\* This step handles a valid SYN
HandlesSyn == HandlesFrame /\ Rx.packetType = SYN_PACKET

\* C27: the step in which the gun handles a GUNSHOT echo whose seq equals
\* sqn lowers waitingForGunACK, sets packetResendCount to 0, promotes the
\* pending state (isPending becomes false) and adds 1 to sqn modulo 256; in
\* any other step sqn changes only to 0, when a SYN is handled or the sketch
\* restarts.
C27_EchoAdvancesSqn ==
  [][role = "gun" =>
       /\ ShotEcho =>
            /\ ~waitingForGunACK' /\ packetResendCount' = 0
            /\ ~pendingState'.isPending
            /\ pendingState.isPending =>
                 remainingBullets' = pendingState.remainingBullets
            /\ sqn' = (sqn + 1) % 256
       /\ (sqn' # sqn /\ ~ShotEcho) =>
            /\ sqn' = 0
            /\ HandlesSyn \/ Reboots]_vars

\* The shot fired at sqn 255 was echoed: sqn wrapped to 0 and the shot's
\* bullet count was promoted
C27_Witness ==
  /\ role = "gun" /\ hasHandshake /\ env.shots = 1 /\ sqn = 0
  /\ rx # <<>> /\ rx[1].packetType = GUNSHOT_PACKET /\ rx[1].sqn = 255
  /\ ~waitingForGunACK /\ packetResendCount = 0
  /\ pendingState = [remainingBullets |-> MAG_SIZE - 1, isPending |-> FALSE]
  /\ remainingBullets = MAG_SIZE - 1

\* This step is a debounced press of the gun's trigger: buttonState rises
TriggerPress == pc = "button" /\ buttonState = LOW /\ buttonState' = HIGH

\* C28: a debounced trigger press of the gun while canonical
\* remainingBullets is 0 emits no IR code and no frame and leaves
\* waitingForGunACK, the pending state and the ring unchanged.
C28_EmptyMagazineFiresNothing ==
  [][(role = "gun" /\ TriggerPress /\ remainingBullets = 0) =>
       /\ ~ir' /\ out' = <<>>
       /\ UNCHANGED <<waitingForGunACK, pendingState, packets, currBufferIdx>>]_vars

\* This step accepts an in-order host command: UPDATE_STATE (gun, vest) or
\* RELOAD (gun) whose seq equals expectedSeqNum
AcceptsCommand ==
  /\ HandlesFrame /\ hasHandshake /\ Rx.sqn = expectedSeqNum
  /\ \/ Rx.packetType = UPDATE_STATE_PACKET
     \/ role = "gun" /\ Rx.packetType = RELOAD_PACKET

\* The role state a frame carries
Payload(p) == IF role = "vest" THEN <<p.shield, p.health>> ELSE p.remainingBullets

\* C29: the step in which the gun or the vest accepts an in-order
\* UPDATE_STATE or RELOAD transmits one reply (GUNSTATE_ACK, VESTSTATE_ACK
\* or RELOAD) whose seq field is the seq of the accepted frame and whose
\* payload is the canonical role state the command has just set, and adds 1
\* to expectedSeqNum modulo 256.
C29_ReplyCarriesAcceptedSeq ==
  [][(role \in {"gun", "vest"} /\ AcceptsCommand) =>
       /\ Len(out') = 1
       /\ out'[1].packetType =
            IF role = "vest" THEN VESTSTATE_ACK_PKT
            ELSE IF Rx.packetType = RELOAD_PACKET THEN RELOAD_PACKET
            ELSE GUNSTATE_ACK_PKT
       /\ out'[1].sqn = Rx.sqn
       /\ Payload(out'[1]) = CanonicalNext
       /\ expectedSeqNum' = (expectedSeqNum + 1) % 256]_vars

\* This step handles, in a session, a host UPDATE_STATE frame (gun: or a
\* RELOAD frame) whose seq is greater than expectedSeqNum
RefusesGap ==
  /\ HandlesFrame /\ hasHandshake /\ Rx.sqn > expectedSeqNum
  /\ (Rx.packetType = UPDATE_STATE_PACKET
        \/ (role = "gun" /\ Rx.packetType = RELOAD_PACKET))

\* C30: in the gun and the vest a host UPDATE_STATE frame (gun: or RELOAD
\* frame) handled in a session with seq greater than expectedSeqNum is
\* answered by exactly
\* one NAK frame whose seq is expectedSeqNum, and expectedSeqNum, the
\* canonical role state and the pending state are left unchanged.
C30_GapIsAnsweredByNak ==
  [][(role \in {"gun", "vest"} /\ RefusesGap) =>
       /\ Len(out') = 1
       /\ out'[1].packetType = NAK_PACKET
       /\ out'[1].sqn = expectedSeqNum
       /\ UNCHANGED <<expectedSeqNum, remainingBullets, shield, health, pendingState>>]_vars

\* The gun, one shot echoed, has answered UPDATE_STATE(seq 1) by NAK(seq 0)
C30_Witness ==
  /\ role = "gun" /\ hasHandshake /\ sqn = 1 /\ expectedSeqNum = 0
  /\ rx # <<>> /\ rx[1].packetType = UPDATE_STATE_PACKET /\ rx[1].sqn = 1
  /\ Len(out) = 1 /\ out[1].packetType = NAK_PACKET /\ out[1].sqn = 0

\* This step handles, in a session of the gun, a host UPDATE_STATE or RELOAD frame
HandlesCommand ==
  /\ HandlesFrame /\ hasHandshake
  /\ Rx.packetType \in {UPDATE_STATE_PACKET, RELOAD_PACKET}

\* The frame's seq is 1..4 behind expectedSeqNum in the 8-bit sequence space
BehindInWindow ==
  (expectedSeqNum + 256 - Rx.sqn) % 256 \in 1..PACKET_BUFFER_SIZE

\* C31: in the gun a host UPDATE_STATE or RELOAD frame whose seq is 1..4
\* behind expectedSeqNum modulo 256 is answered as a duplicate (one frame of
\* the acknowledging type, expectedSeqNum and the canonical and pending state
\* unchanged), also after expectedSeqNum has wrapped from 255 to 0; a frame
\* whose seq is neither expectedSeqNum nor in that window is answered by one
\* NAK, also when its numeric value is smaller than expectedSeqNum.
C31_DuplicateDetectionIsModular ==
  [][(role = "gun" /\ HandlesCommand /\ Rx.sqn # expectedSeqNum) =>
       /\ Len(out') = 1
       /\ out'[1].packetType =
            IF ~BehindInWindow THEN NAK_PACKET
            ELSE IF Rx.packetType = RELOAD_PACKET THEN RELOAD_PACKET
            ELSE GUNSTATE_ACK_PKT
       /\ UNCHANGED <<expectedSeqNum, remainingBullets, pendingState>>]_vars

\* sendPacket(ACK_PACKET) of the sketch that runs, applied to the state s
SendsAck(s) ==
  IF s.role = "vest" THEN VestSendPacket(s, ACK_PACKET) ELSE GunSendPacket(s, ACK_PACKET)

\* C32: in the gun and the vest sendPacket(ACK_PACKET) leaves the ring
\* packets, its write index currBufferIdx and sqn as they are, in every state
\* it can be called in; a step that transmits an ACK frame is the handling
\* of a SYN, transmits nothing else, leaves the ring and currBufferIdx
\* unchanged and ends with sqn at the 0 the SYN branch assigned before the
\* ACK was sent.
C32_HandshakeAckIsNotStored ==
  /\ [](role \in {"gun", "vest"} =>
          /\ SendsAck(St).packets = packets
          /\ SendsAck(St).currBufferIdx = currBufferIdx
          /\ SendsAck(St).sqn = sqn)
  /\ [][(role \in {"gun", "vest"} /\ out' # <<>> /\ out'[1].packetType = ACK_PACKET) =>
          /\ HandlesSyn /\ Len(out') = 1
          /\ UNCHANGED <<packets, currBufferIdx>>
          /\ sqn' = 0]_vars

\* The gun has answered a SYN by an ACK while its ring held a GUNSHOT frame
C32_Witness ==
  /\ role = "gun" /\ rx # <<>> /\ rx[1].packetType = SYN_PACKET
  /\ Len(out) = 1 /\ out[1].packetType = ACK_PACKET
  /\ currBufferIdx = 1 /\ packets[0].packetType = GUNSHOT_PACKET

\* The IMU frames among the frames this step transmits
ImuFramesSent == {i \in DOMAIN out' : out'[i].packetType = IMU_PACKET}

\* C33: in the gun and the hand a step that transmits an IMU frame transmits
\* one, runs with hasHandshake true, at least IMU_INTERVAL (50 ms) after the
\* IMU frame before it, and leaves hasHandshake, sqn, expectedSeqNum, the
\* ring, the pending state and the canonical state unchanged.
C33_ImuIsOutsideSequencing ==
  [][(role \in {"gun", "hand"} /\ ImuFramesSent # {}) =>
       /\ Cardinality(ImuFramesSent) = 1
       /\ hasHandshake
       /\ sincePreviousIMU >= IMU_INTERVAL
       /\ UNCHANGED <<hasHandshake, sqn, expectedSeqNum, packets, currBufferIdx,
                      pendingState, remainingBullets>>]_vars

\* The gun has sent an IMU frame while a shot awaited its echo
C33_Witness ==
  /\ role = "gun" /\ pc = "timeout"
  /\ Len(out) = 1 /\ out[1].packetType = IMU_PACKET
  /\ sincePreviousIMU = 0
  /\ waitingForGunACK /\ pendingState.isPending /\ currBufferIdx = 1

\* This step of the hand reads a KILL frame of the link protocol whose CRC verifies
HandReadsKill ==
  /\ role = "hand" /\ SerialStep
  /\ Rx.packetType = KILL_PACKET
  /\ CRC8(<<Rx.packetType>> \o Rx.padding) = Rx.crc

\* C34: the step in which the hand reads a valid KILL frame, type byte 'K',
\* resets the sketch: it ends with hasHandshake false and nothing
\* transmitted.
C34_HandResetsOnKill ==
  [][HandReadsKill => (~hasHandshake' /\ out' = <<>>)]_vars

\* C35: in the gun, in every state with hasHandshake true and no shot
\* pending (isPending false), magazine pixel i is lit exactly when
\* i < remainingBullets, for i in 0..5.
C35_PixelsShowCanonicalBullets ==
  (role = "gun" /\ hasHandshake /\ ~pendingState.isPending) =>
     \A i \in 0..(NUMPIXELS - 1) : pixels[i] <=> (i < remainingBullets)

\* C36: in the vest, in every state with isPending false the pending copy
\* equals the canonical state: pendingState.shield = shield and
\* pendingState.health = health.
C36_IdlePendingEqualsCanonical ==
  (role = "vest" /\ ~pendingState.isPending) =>
     (pendingState.shield = shield /\ pendingState.health = health)

\* The vest after a hit whose VESTSHOT was echoed: the damage was promoted
C36_Witness ==
  /\ role = "vest" /\ hasHandshake /\ sqn = 1
  /\ rx # <<>> /\ rx[1].packetType = VESTSHOT_PACKET
  /\ pendingState = [shield |-> 0, health |-> MAX_HEALTH - IR_DAMAGE, isPending |-> FALSE]
  /\ health = MAX_HEALTH - IR_DAMAGE

\* C37: in the gun, the vest and the gun variant, a step that raises
\* hasHandshake handles an ACK that follows a SYN handled since the last
\* power-up or reset.
C37_HandshakeNeedsSyn ==
  [][(role \in {"gun", "vest", "gun2"} /\ ~hasHandshake /\ hasHandshake') =>
       /\ HandlesFrame /\ Rx.packetType = ACK_PACKET
       /\ hist.synPayload # <<>>]_vars

\* This step handles, in a session, a host GUNSHOT (gun) or VESTSHOT (vest)
\* frame that carries the current sqn although no shot of the session was
\* stamped with it, no shot awaits its echo and nothing is pending
UnsolicitedEcho ==
  /\ HandlesFrame /\ hasHandshake
  /\ Rx.packetType = (IF role = "vest" THEN VESTSHOT_PACKET ELSE GUNSHOT_PACKET)
  /\ Rx.sqn = sqn
  /\ \A i \in DOMAIN hist.shots : hist.shots[i] # sqn
  /\ ~waitingForGunACK /\ ~pendingState.isPending

\* C38: in the gun and the vest a host GUNSHOT/VESTSHOT frame whose seq
\* equals sqn, handled when no shot frame with that seq was transmitted in
\* the session, leaves sqn unchanged.
C38_UnsolicitedEchoKeepsSqn ==
  [][(role \in {"gun", "vest"} /\ UnsolicitedEcho) => sqn' = sqn]_vars

\* The GUNSHOT frames among the frames this step transmits
GunshotsSent == {i \in DOMAIN out' : out'[i].packetType = GUNSHOT_PACKET}

\* C39: in the gun and the gun variant, in a session opened by a SYN that
\* arrived during a session and the ACK after it, no GUNSHOT frame is
\* transmitted as long as the trigger has not been pressed in the new
\* session.
C39_HandshakeDiscardsShot ==
  [][(role \in Guns /\ hasHandshake /\ hist.resync /\ hist.shots' = <<>>) =>
       GunshotsSent = {}]_vars

\* C40: the step in which the gun handles a valid ACK frame while
\* hasHandshake is true leaves hasHandshake, the pending state (isPending
\* and the pending value), remainingBullets, sqn, expectedSeqNum and
\* waitingForGunACK unchanged.
C40_AckInSessionChangesNothing ==
  [][(role = "gun" /\ HandlesFrame /\ hasHandshake /\ Rx.packetType = ACK_PACKET) =>
       UNCHANGED <<hasHandshake, pendingState, remainingBullets, sqn, expectedSeqNum,
                   waitingForGunACK>>]_vars
=============================================================================
